---- MODULE Spec2Model ----
(***************************************************************************)
(* State-machine model of binance_short_bot: the deduplicator, the ERC-20  *)
(* metadata resolver (TTL cache + single-flight), the rate-limited token   *)
(* registry, the futures trader, the decision handler                      *)
(* Strategy.on_transfer_in, the websocket feed, and the WorkerController   *)
(* of the control server.                                                  *)
(*                                                                         *)
(* Scheduling is asyncio's: one task runs at a time and keeps the event    *)
(* loop until it suspends at an await.  `running` names the task that      *)
(* holds the loop (0: the loop is idle and may resume any ready task).     *)
(* The python-binance client is synchronous, so every venue call is made   *)
(* while the calling task holds the loop.                                  *)
(*                                                                         *)
(* Time is time.monotonic() in ticks.  Durations of the program (TTLs, the *)
(* limiter period, the dedup cap, the float precision) are scaled down so  *)
(* that their effects occur within the explored horizon.                   *)
(***************************************************************************)
EXTENDS Integers, Sequences, FiniteSets, TLC

\* ------------------------------------------------------------------ bounds
MaxTasks == 3
NumHashes == 4
MaxTime == 2
MaxFails == 6
MaxPids == 2

\* ------------------------------------------------- scaled program constants
\* The literal 50000 of Strategy._dedup_tx.
SeenCap == 2
\* cache_ttl_sec of ERC20MetadataClient (24 * 3600 in main).
MetaTTL == 1
\* token_list_cache_ttl (cache_ttl_seconds, default 45).
RegTTL == 1
\* RateLimiter(max_calls = max_rpm, period = 60.0): bucket capacity, and the
\* ticks one token takes to refill (period / max_calls).
LimMaxCalls == 1
LimTicksPerToken == 2
\* BinanceFuturesTrader._exchange_info_ttl (600.0).
ExchTTL == 1
\* listen(): the first backoff and its cap, in tenths of a second (0.2, 3.0).
BackoffInit == 2
BackoffCap == 30
\* Significant bits of a Python float (53 for an IEEE double).
MantBits == 4
\* WorkerController.stop: the waits of 0.2 s that fit into timeout_sec (8.0).
MaxPolls == 2

Tasks == 1..MaxTasks
Hashes == 1..NumHashes
\* evt.tx_hash may be missing (None): result.get("transactionHash").
NoHash == 0

\* ------------------------------------------------------------------ floats
\* A float is a pair <<n, d>> standing for n / d (d a power of two, n >= 0);
\* <<0, 0>> is NaN.  Decimal text (YAML, JSON) is a pair <<n, d>> too, exact,
\* and becomes a float by rounding to MantBits significant bits.
NaN == <<0, 0>>
IsNaN(x) == x[2] = 0

RECURSIVE Pow(_, _)
Pow(b, e) == IF e = 0 THEN 1 ELSE b * Pow(b, e - 1)

\* n / d rounded to the nearest float, ties to even.
RECURSIVE RoundF(_, _)
RoundF(n, d) ==
  IF n = 0 THEN <<0, 1>>
  ELSE IF n >= d * Pow(2, MantBits) THEN LET r == RoundF(n, 2 * d) IN <<2 * r[1], r[2]>>
  ELSE IF n < d * Pow(2, MantBits - 1) THEN LET r == RoundF(2 * n, d) IN <<r[1], 2 * r[2]>>
  ELSE LET q == n \div d
           rem == n % d
       IN IF 2 * rem > d \/ (2 * rem = d /\ q % 2 = 1) THEN <<q + 1, 1>> ELSE <<q, 1>>

RECURSIVE Gcd(_, _)
Gcd(a, b) == IF b = 0 THEN a ELSE Gcd(b, a % b)
\* The same number in lowest terms (one representation per value).
Canon(x) == IF x[2] = 0 \/ x[1] = 0 THEN <<0, x[2] * 0 + (IF x[2] = 0 THEN 0 ELSE 1)>>
            ELSE LET g == Gcd(x[1], x[2]) IN <<x[1] \div g, x[2] \div g>>

\* float(text), int / int, float * float: each correctly rounded once.
to_float(x) == IF IsNaN(x) THEN NaN ELSE Canon(RoundF(x[1], x[2]))
fdiv(a, b) == Canon(RoundF(a, b))
fmul(x, y) == IF IsNaN(x) \/ IsNaN(y) THEN NaN ELSE Canon(RoundF(x[1] * y[1], x[2] * y[2]))
fadd(x, y) == IF IsNaN(x) \/ IsNaN(y) THEN NaN
             ELSE Canon(RoundF(x[1] * y[2] + y[1] * x[2], x[2] * y[2]))
\* x - y for x >= y (the model has no negative floats).
fsub(x, y) == IF IsNaN(x) \/ IsNaN(y) THEN NaN
             ELSE Canon(RoundF(x[1] * y[2] - y[1] * x[2], x[2] * y[2]))
\* x < y on floats: False when either is NaN.
flt(x, y) == ~IsNaN(x) /\ ~IsNaN(y) /\ x[1] * y[2] < y[1] * x[2]
fle(x, y) == ~IsNaN(x) /\ ~IsNaN(y) /\ x[1] * y[2] <= y[1] * x[2]


\* x / y on floats, and math.floor.
ffdiv(x, y) == IF IsNaN(x) \/ IsNaN(y) \/ y[1] = 0 THEN NaN
               ELSE Canon(RoundF(x[1] * y[2], x[2] * y[1]))
ffloor(x) == x[1] \div x[2]

\* ------------------------------------------------------------------ events

\* Text of a token symbol: an identity and its letter case (str.upper acts on it).
SymIds == {1}
upper(s) == [s EXCEPT !.up = TRUE]

\* The token contracts that emit transfers, with what their symbol() and
\* decimals() return on chain (int(raw, 16) may exceed 36).
Contracts == {1, 2}
ChainSymbol(c) == [id |-> 1, up |-> (c # 1)]
ChainDecimals(c) == IF c = 1 THEN 1 ELSE 37

\* amount_raw values decoded from the log's data field.
Amounts == {8, 30}

\* Address text: whose address it spells and how (checksum spelling is what
\* to_checksum_address returns); BadAddr is text that is not an address.
WatchedId == "watched"
OtherId == "other"
BadAddr == "not an address"
AddrTexts == [id : {WatchedId, OtherId}, sp : {"lower", "upper"}]
               \cup {[id |-> BadAddr, sp |-> "lower"]}

\* norm_addr (to_checksum_address): the checksum spelling of a valid address,
\* {} when the text is not an address (the call raises).
norm_addr(a) ==
  IF a.id = BadAddr THEN {} ELSE {[id |-> a.id, sp |-> "checksum"]}

\* "0x" + topic[-40:]: the address spelled in the last 40 characters of a topic.
topic_addr(topic) == [id |-> topic.id, sp |-> topic.sp]

\* BscWsListener.__init__: self.watch_address = norm_addr(watch_address)
watch_address == CHOOSE a \in norm_addr([id |-> WatchedId, sp |-> "lower"]) : TRUE

\* The events listen() can yield.
ERC20TransferIn == [tx_hash : Hashes \cup {NoHash}, token_contract : Contracts,
                    amount_raw : Amounts, to_addr : {watch_address}]
NoEvt == [tx_hash |-> NoHash, token_contract |-> 1, amount_raw |-> 8,
          to_addr |-> watch_address]

\* A log notification as _parse_message reads it.  topics[1] is the event
\* signature, topics[2] the sender, topics[3] the recipient (Python's
\* topics[0..2]); each address topic is the 32-byte padding of address text.
\* address / data: {} when missing or not parsable; tx_hash may be None.
Topic0 == [id |-> OtherId, sp |-> "lower"]
TopicLists ==
  LET sender == [id |-> OtherId, sp |-> "lower"]
  IN {<<Topic0, sender>>,
      <<Topic0, [id |-> BadAddr, sp |-> "lower"], [id |-> WatchedId, sp |-> "lower"]>>}
       \cup {<<Topic0, sender, to>> : to \in AddrTexts}
       \cup {<<Topic0, sender, to, Topic0>> : to \in AddrTexts}
Messages == [has_result : BOOLEAN, topics : TopicLists,
             address : {{}, {1}}, data : {{}, {8}},
             tx_hash : {NoHash, 1}, block_ok : BOOLEAN]


\* ------------------------------------------------------------ configuration
\* Strategy settings as load_settings reads them: decimal text, made floats
\* by float(...).
Settings == [trigger_value_usdt : {<<5, 2>>, <<5, 1>>, <<7, 1>>},
             short_notional_usdt : {<<4, 1>>},
             trade_when_token_not_in_list : BOOLEAN,
             take_profit_pct : {<<0, 1>>, <<1, 4>>},
             stop_loss_pct : {<<0, 1>>, <<1, 2>>}]

\* ------------------------------------------------------- token list source
\* One raw token record: the candidate price fields in the order
\* extract_price_usdt tries them.  A field is absent (None), unparsable by
\* float(), or a number in decimal text ("nan" parses to NaN).
Absent == [k |-> "absent", v |-> NaN]
Num(x) == [k |-> "num", v |-> x]
TokenRecords == {
  [price |-> Num(<<2, 1>>), lastPrice |-> Absent],
  [price |-> Num(<<3, 1>>), lastPrice |-> Absent],
  [price |-> [k |-> "bad", v |-> NaN], lastPrice |-> Num(<<2, 1>>)],
  [price |-> Absent, lastPrice |-> Absent],
  [price |-> Num(NaN), lastPrice |-> Absent] }

\* BinanceTokenRegistry.extract_price_usdt: the first field float() accepts;
\* {} stands for None.
extract_price_usdt(info) ==
  IF info.price.k = "num" THEN {to_float(info.price.v)}
  ELSE IF info.lastPrice.k = "num" THEN {to_float(info.lastPrice.v)}
  ELSE {}

\* A snapshot maps an upper-case symbol to {} (not listed) or {record}.  Symbol
\* 0 is a listed token that is never transferred to the watched address.
OtherSym == 0
Snapshots == {[s \in SymIds \cup {OtherSym} |-> IF s = OtherSym THEN o ELSE r] :
                r \in {{}} \cup {{x} : x \in TokenRecords},
                o \in {{}, {[price |-> Num(<<2, 1>>), lastPrice |-> Absent]}}}
EmptySnapshot == [s \in SymIds \cup {OtherSym} |-> {}]
\* What the HTTP GET of the list returns: a failure, or a JSON document of one
\* of the shapes _fetch distinguishes, holding the records `tokens`.
ListResponses == [ok : {FALSE}, shape : {"none"}, tokens : {EmptySnapshot}]
            \cup [ok : {TRUE}, shape : {"data_list", "nested_list", "top_list"},
                  tokens : Snapshots]

\* ------------------------------------------------------------------- venue
\* futures_exchange_info() as the trader reads it for {symbol}USDT: the
\* symbol's status ("absent": not in "symbols") and its LOT_SIZE filter
\* (step/min_qty {} when the filter is missing or unparsable), as decimal text.
ExchangeInfos == {
  [status |-> "TRADING", step |-> {<<1, 2>>}, min_qty |-> {<<1, 1>>}, tick |-> {<<1, 4>>}],
  [status |-> "TRADING", step |-> {<<1, 2>>}, min_qty |-> {<<2, 1>>}, tick |-> {<<1, 2>>}],
  [status |-> "TRADING", step |-> {<<1, 5>>}, min_qty |-> {<<1, 1>>}, tick |-> {<<1, 5>>}],
  [status |-> "TRADING", step |-> {}, min_qty |-> {}, tick |-> {}],
  [status |-> "BREAK", step |-> {<<1, 2>>}, min_qty |-> {<<1, 1>>}, tick |-> {<<1, 2>>}],
  [status |-> "absent", step |-> {}, min_qty |-> {}, tick |-> {}] }
\* Results of a venue call: {} when it raised.
ExchangeResults == {{}} \cup {{i} : i \in ExchangeInfos}
MarkPrices == {<<3, 1>>, <<0, 1>>}
MarkResults == {{}} \cup {{p} : p \in MarkPrices}

\* ------------------------------------------------------------------- state
VARIABLES
  now,          \* time.monotonic(), in ticks
  world,        \* the run's environment: events the chain will emit
  cfg,          \* the Strategy's settings
  running,      \* task holding the event loop, 0 when idle
  ntasks,       \* handler tasks created so far by main's create_task
  pc,           \* per task: position in on_transfer_in
  evt,          \* per task: the ERC20TransferIn it handles
  loc,          \* per task: locals of on_transfer_in and its callees
  hist,         \* per task: history of the calls made and their outcomes
  seen_txs,     \* Strategy._seen_txs
  cleared,      \* history: an insertion took _seen_txs past SeenCap
  dd_prev,      \* history: the direct _dedup_tx call before the last
  dd_last,      \* history: the last direct _dedup_tx call <<hash, returned>>
  meta_cache,   \* ERC20MetadataClient._cache: contract -> {} or {TokenMeta}
  inflight,     \* ERC20MetadataClient._inflight: contract -> future id (0 none)
  fut,          \* the futures created by get_symbol_decimals, by creating task
  eth_calls,    \* history: symbol()/decimals() eth_calls issued per contract
  reg_cached,   \* BinanceTokenRegistry._cached
  reg_last,     \* BinanceTokenRegistry._last_fetch
  reg_lock,     \* holder of BinanceTokenRegistry._lock (0 free)
  reg_fetched,  \* history: the mapping the last successful _fetch returned
  reg_refreshed, \* history: a _fetch has succeeded (at _last_fetch)
  lim_tokens,   \* RateLimiter._tokens, in 1/LimTicksPerToken of a token
  lim_last,     \* RateLimiter._last
  lim_grants,   \* history: the times of the latest permits granted
  fpc,          \* where the feed loop listen() is
  backoff,      \* listen's backoff, in tenths of a second
  feed_event,   \* history: what the feed loop's last step was
  feed_msg,     \* history: the message the last step received, if any
  feed_yield,   \* history: what _parse_message made of it ({}: None)
  feed_slept,   \* history: the length of the last backoff sleep
  feed_fails,   \* history: failed attempts since the last acknowledged subscription
  feed_sub,     \* listen's sub_id on the current connection ("none": not subscribed)
  exch_info,    \* BinanceFuturesTrader._exchange_info: {} or {info}
  exch_ts,      \* BinanceFuturesTrader._exchange_info_ts
  state,        \* WorkerController.state (a WorkerState)
  pidfile,      \* the pid written in PID_FILE (0: no file)
  procs,        \* the operating system's processes, by pid
  wpc,          \* where the holder of WorkerController._lock is in stop()
  stop_pid,     \* stop's local pid
  polls_left,   \* stop: the waits left before its deadline
  result,       \* the dict the last start() or stop() returned
  last_op       \* history: the last start() or stop() and how it went

workerVars == <<state, pidfile, procs, wpc, stop_pid, polls_left, result, last_op>>
envVars == <<world, cfg, workerVars>>
feedVars == <<fpc, backoff, feed_event, feed_msg, feed_yield, feed_slept, feed_fails, feed_sub>>
dedupVars == <<seen_txs, cleared>>
probeVars == <<dd_prev, dd_last>>
metaVars == <<meta_cache, inflight, fut, eth_calls>>
regVars == <<reg_cached, reg_last, reg_lock, reg_fetched, reg_refreshed,
            lim_tokens, lim_last, lim_grants>>
exchVars == <<exch_info, exch_ts>>
taskVars == <<running, ntasks, pc, evt, loc, hist>>
vars == <<now, envVars, feedVars, taskVars, dedupVars, probeVars, metaVars, regVars, exchVars>>

\* A task's locals and the record of what it did (history, for the properties).
InitLoc == [sd |-> {}, wait_on |-> 0, amount |-> <<0, 1>>, info |-> {},
            price |-> {}, wake |-> 0, mark |-> {}, qty |-> {}]
InitHist == [presented |-> FALSE, past_dedup |-> FALSE, fetcher |-> FALSE,
             failed |-> {},
             failed_pre |-> {}, price_src |-> "none", in_list |-> FALSE,
             price |-> {}, value_usdt |-> {}, decided |-> FALSE,
             market_status |-> "none", order_req |-> FALSE,
             order_sent |-> FALSE, order_ok |-> FALSE, tp_sent |-> FALSE,
             sl_sent |-> FALSE, list_fetch |-> "none", info_ret |-> {},
             reg_waited |-> FALSE,
             meta_res |-> <<>>, coalesced |-> 0, meta_how |-> "none", meta_sd |-> {}, tp_trigger |-> {}, sl_trigger |-> {},
             outcome |-> "none"]

\* ------------------------------------------------------------ Deduplicator

\* Strategy._dedup_tx: the value returned and the set left behind.  The body
\* holds _seen_lock and has no await, so it runs without interleaving.
dedup_tx_NoRecord(seen, h) ==
  [ret |-> TRUE, seen |-> seen]

dedup_tx_NoClear(seen, h) ==
  IF h \in seen
    THEN [ret |-> FALSE, seen |-> seen]
    ELSE [ret |-> TRUE, seen |-> seen \cup {h}]

dedup_tx(seen, h) ==
  IF h \in seen
    THEN [ret |-> FALSE, seen |-> seen]
    ELSE LET added == seen \cup {h}
         IN [ret |-> TRUE,
             seen |-> IF Cardinality(added) > SeenCap THEN {} ELSE added]

\* A direct call of _dedup_tx(h), recorded with the call before it.
Present(h) ==
  /\ LET r == dedup_tx(seen_txs, h)
     IN /\ seen_txs' = r.seen
        /\ cleared' = (cleared \/ Cardinality(seen_txs \cup {h}) > SeenCap)
        /\ dd_last' = <<h, r.ret>>
  /\ dd_prev' = dd_last
  /\ UNCHANGED <<now, envVars, feedVars, taskVars, metaVars, regVars, exchVars>>

\* ------------------------------------------------------- Metadata Resolver

\* ERC20MetadataClient._cache_get: the unexpired entry of the contract, if any.
cache_get(cache, c, t) ==
  {m \in cache[c] : ~(t - m.ts > MetaTTL)}

\* _cache_get pops an expired entry.
cache_after_get(cache, c, t) ==
  [cache EXCEPT ![c] = cache_get(cache, c, t)]

\* ERC20MetadataClient._cache_set
cache_set(cache, c, symbol, decimals, t) ==
  [cache EXCEPT ![c] = {[symbol |-> upper(symbol), decimals |-> decimals, ts |-> t]}]

meta_of(m) == [symbol |-> m.symbol, decimals |-> m.decimals]

\* The future a caller finds registered for the key: self._inflight.get(key).
inflight_get_Unregistered(infl, c) == 0

inflight_get(infl, c) == infl[c]

\* f.set_result(v) guarded by "if f and not f.done()".
set_result(futs, f, v) ==
  IF f # 0 /\ futs[f].state = "pending"
    THEN [futs EXCEPT ![f] = [state |-> "result", val |-> v]]
    ELSE futs

\* fut.cancel(): what asyncio.wait_for does to the awaited future on timeout.
cancel_future(futs, f) ==
  IF futs[f].state = "pending"
    THEN [futs EXCEPT ![f] = [state |-> "cancelled", val |-> {}]]
    ELSE futs

\* A handler task ends: on_transfer_in returned (with the outcome it logged),
\* or an exception left it ("raised").
Finish(t, how) ==
  /\ pc' = [pc EXCEPT ![t] = "done"]
  /\ hist' = [hist EXCEPT ![t].outcome = how]
  /\ loc' = [loc EXCEPT ![t] = InitLoc]
  /\ running' = 0

\* As Finish, after the external call `call` failed.
FinishFailed(t, call, how) ==
  /\ pc' = [pc EXCEPT ![t] = "done"]
  /\ hist' = [hist EXCEPT ![t].outcome = how, ![t].failed = @ \cup {call}]
  /\ loc' = [loc EXCEPT ![t] = InitLoc]
  /\ running' = 0

\* History: how task t's call of get_symbol_decimals ended ("value", "absent"
\* for None, "raised") and the tuple it returned.
returned(h, t, how, sd) == [h EXCEPT ![t].meta_how = how, ![t].meta_sd = sd]

\* The call of get_symbol_decimals ended without a tuple (None or an
\* exception) and on_transfer_in ends with it.
FinishReturned(t, h, how, outcome) ==
  /\ pc' = [pc EXCEPT ![t] = "done"]
  /\ hist' = [returned(h, t, how, {}) EXCEPT ![t].outcome = outcome,
                                              ![t].failed = @ \cup {"metadata"}]
  /\ loc' = [loc EXCEPT ![t] = InitLoc]
  /\ running' = 0

\* Hashes are named in order of first appearance.
UsedHashes == {evt[u].tx_hash : u \in 1..ntasks} \cup {NoHash}
FirstUse(h) == h \in UsedHashes \/ \A g \in Hashes : g < h => g \in UsedHashes

\* main: asyncio.create_task(strat.on_transfer_in(evt)) for the next event.
Dispatch(e) ==
  /\ running = 0
  /\ ntasks < world.max_events
  /\ e.token_contract \in world.contracts
  /\ e.amount_raw \in world.amounts
  /\ FirstUse(e.tx_hash)
  /\ ntasks' = ntasks + 1
  /\ pc' = [pc EXCEPT ![ntasks + 1] = "ready"]
  /\ evt' = [evt EXCEPT ![ntasks + 1] = e]
  /\ UNCHANGED <<now, envVars, feedVars, running, loc, hist, dedupVars, probeVars, metaVars,
                 regVars, exchVars>>

\* on_transfer_in up to the call of get_symbol_decimals: the dedup step.
\* New tasks start in creation order (the loop's ready queue is FIFO).
Start(t) ==
  /\ running = 0
  /\ pc[t] = "ready"
  /\ \A u \in Tasks : u < t => pc[u] # "ready"
  /\ LET h == evt[t].tx_hash
         r == dedup_tx(seen_txs, h)
     IN IF h # NoHash
          THEN /\ seen_txs' = r.seen
               /\ cleared' = (cleared \/ Cardinality(seen_txs \cup {h}) > SeenCap)
               /\ IF r.ret
                    THEN /\ pc' = [pc EXCEPT ![t] = "meta_call"]
                         /\ hist' = [hist EXCEPT ![t].presented = TRUE,
                                                 ![t].past_dedup = TRUE]
                         /\ running' = t
                    ELSE /\ pc' = [pc EXCEPT ![t] = "done"]
                         /\ hist' = [hist EXCEPT ![t].presented = TRUE,
                                                 ![t].outcome = "duplicate"]
                         /\ running' = 0
          ELSE /\ pc' = [pc EXCEPT ![t] = "meta_call"]
               /\ hist' = [hist EXCEPT ![t].past_dedup = TRUE]
               /\ running' = t
               /\ UNCHANGED dedupVars
  /\ UNCHANGED <<now, envVars, feedVars, ntasks, evt, loc, probeVars, metaVars, regVars, exchVars>>

\* get_symbol_decimals up to its first await: cache lookup, then under _lock
\* the second lookup and the registration in _inflight.
get_symbol_decimals(t) ==
  /\ running = t
  /\ pc[t] = "meta_call"
  /\ LET c == evt[t].token_contract
         cached == cache_get(meta_cache, c, now)
         f == inflight_get(inflight, c)
     IN /\ meta_cache' = cache_after_get(meta_cache, c, now)
        /\ IF cached # {}
             THEN \* cache hit: return cached.symbol, cached.decimals
                  /\ loc' = [loc EXCEPT ![t].sd = {meta_of(m) : m \in cached}]
                  /\ pc' = [pc EXCEPT ![t] = "after_meta"]
                  /\ hist' = returned(hist, t, "value", {meta_of(m) : m \in cached})
                  /\ UNCHANGED <<running, inflight, fut, eth_calls>>
             ELSE IF f = 0
               THEN \* first caller: register the future, then gather the two eth_calls
                    /\ fut' = [fut EXCEPT ![t] = [state |-> "pending", val |-> {}]]
                    /\ inflight' = [inflight EXCEPT ![c] = t]
                    /\ eth_calls' = [eth_calls EXCEPT ![c] =
                                       [symbol |-> @.symbol + 1, decimals |-> @.decimals + 1]]
                    /\ pc' = [pc EXCEPT ![t] = "meta_fetch"]
                    /\ hist' = [hist EXCEPT ![t].fetcher = TRUE]
                    /\ running' = 0
                    /\ UNCHANGED loc
               ELSE IF fut[f].state = "pending"
                 THEN \* coalesced caller: await asyncio.wait_for(fut, timeout)
                      /\ loc' = [loc EXCEPT ![t].wait_on = f]
                      /\ pc' = [pc EXCEPT ![t] = "meta_wait"]
                      /\ hist' = [hist EXCEPT ![t].coalesced = f]
                      /\ running' = 0
                      /\ UNCHANGED <<inflight, fut, eth_calls>>
                 ELSE \* the registered future is already cancelled: awaiting it
                      \* raises CancelledError, which "except Exception" lets through
                      /\ FinishReturned(t, [hist EXCEPT ![t].coalesced = f], "raised", "raised")
                      /\ UNCHANGED <<inflight, fut, eth_calls>>
  /\ UNCHANGED <<now, envVars, feedVars, ntasks, evt, dedupVars, probeVars, regVars, exchVars>>

\* What one of the two gathered eth_calls gave: an exception (HTTP error, RPC
\* error, timeout), None (no result, or a symbol that decodes to nothing), or
\* a value.
CallResults == {"exception", "none", "value"}

\* "if not symbol or decimals is None: raise RuntimeError" passes.
metadata_complete_SymbolOnly(sym_res, dec_res) == sym_res = "value"

metadata_complete(sym_res, dec_res) == sym_res = "value" /\ dec_res = "value"

\* The fetching caller after the gather, given what the two calls gave.
fetch_done(t, sym_res, dec_res) ==
  /\ running = 0
  /\ pc[t] = "meta_fetch"
  /\ LET c == evt[t].token_contract
         f == inflight[c]
         h1 == [hist EXCEPT ![t].meta_res = <<sym_res, dec_res>>]
     IN IF metadata_complete(sym_res, dec_res)
          THEN LET cache1 == cache_set(meta_cache, c, ChainSymbol(c), ChainDecimals(c), now)
                   meta == CHOOSE m \in cache1[c] : TRUE
               IN /\ meta_cache' = cache1
                  /\ inflight' = [inflight EXCEPT ![c] = 0]
                  /\ fut' = set_result(fut, f, {meta_of(meta)})
                  /\ loc' = [loc EXCEPT ![t].sd = {meta_of(meta)}]
                  /\ pc' = [pc EXCEPT ![t] = "after_meta"]
                  /\ running' = t
                  /\ hist' = returned(h1, t, "value", {meta_of(meta)})
          ELSE \* "metadata incomplete": the except branch resolves the future to None
               /\ inflight' = [inflight EXCEPT ![c] = 0]
               /\ fut' = set_result(fut, f, {})
               /\ FinishReturned(t, h1, "absent", "metadata unavailable")
               /\ UNCHANGED meta_cache
  /\ UNCHANGED <<now, envVars, feedVars, ntasks, evt, eth_calls, dedupVars, probeVars, regVars, exchVars>>

\* A coalesced caller resumes because the future it awaits is done.
wait_done(t) ==
  /\ running = 0
  /\ pc[t] = "meta_wait"
  /\ LET f == fut[loc[t].wait_on]
     IN /\ f.state # "pending"
        /\ IF f.state = "cancelled"
             THEN \* fut.result() raises CancelledError (a BaseException)
                  FinishReturned(t, hist, "raised", "raised")
             ELSE IF f.val = {}
               THEN FinishReturned(t, hist, "absent", "metadata unavailable")
               ELSE /\ loc' = [loc EXCEPT ![t].sd = f.val]
                    /\ pc' = [pc EXCEPT ![t] = "after_meta"]
                    /\ running' = t
                    /\ hist' = returned(hist, t, "value", f.val)
  /\ UNCHANGED <<now, envVars, feedVars, ntasks, evt, dedupVars, probeVars, metaVars, regVars, exchVars>>

\* A coalesced caller's timeout fires: wait_for cancels the shared future and
\* raises TimeoutError, which the caller turns into None.
wait_timeout(t) ==
  /\ running = 0
  /\ pc[t] = "meta_wait"
  /\ fut[loc[t].wait_on].state = "pending"
  /\ fut' = cancel_future(fut, loc[t].wait_on)
  /\ FinishReturned(t, hist, "absent", "metadata unavailable")
  /\ UNCHANGED <<now, envVars, feedVars, ntasks, evt, dedupVars, probeVars,
                 meta_cache, inflight, eth_calls, regVars, exchVars>>

\* ------------------------------------------- Rate limiter and Token Registry

Min(a, b) == IF a < b THEN a ELSE b

\* RateLimiter.acquire, the part under its lock.  Credit is counted in ticks:
\* one token is worth LimTicksPerToken ticks (period / max_calls).
limiter_acquire_NoCap(tokens, last, t) ==
  LET refilled == tokens + (t - last)
  IN IF refilled >= LimTicksPerToken
       THEN [granted |-> TRUE, tokens |-> refilled - LimTicksPerToken, need |-> 0]
       ELSE [granted |-> FALSE, tokens |-> refilled, need |-> LimTicksPerToken - refilled]

limiter_acquire(tokens, last, t) ==
  LET refilled == Min(LimMaxCalls * LimTicksPerToken, tokens + (t - last))
  IN IF refilled >= LimTicksPerToken
       THEN [granted |-> TRUE, tokens |-> refilled - LimTicksPerToken, need |-> 0]
       ELSE [granted |-> FALSE, tokens |-> refilled, need |-> LimTicksPerToken - refilled]

\* The permits remembered for the rate bound: the latest GrantWindow of them.
GrantWindow == LimMaxCalls + 2
record_grant(grants, t) ==
  LET g == Append(grants, t)
  IN IF Len(g) > GrantWindow THEN Tail(g) ELSE g

\* The effect of one pass through acquire's locked section on the bucket.
acquire_step(a) ==
  /\ lim_tokens' = a.tokens
  /\ lim_last' = now
  /\ lim_grants' = IF a.granted THEN record_grant(lim_grants, now) ELSE lim_grants

\* TokenRegistry.refresh_if_needed: the freshness test.
registry_fresh(cached, last, t) ==
  t - last < RegTTL /\ cached # EmptySnapshot

\* TokenRegistry._fetch after the HTTP response: the symbol -> record mapping,
\* or {} when the call raised (HTTP failure, or a body that is a bare list).
fetch_result(resp) ==
  IF resp.ok /\ resp.shape \in {"data_list", "nested_list"} THEN {resp.tokens} ELSE {}

\* refresh_if_needed: "self._cached = await self._fetch()"; a raising fetch
\* leaves the snapshot as it was.
refresh_store_Overlay(cached, out) ==
  IF out = {} THEN cached
  ELSE LET new == CHOOSE m \in out : TRUE
       IN [s \in DOMAIN cached |-> IF new[s] # {} THEN new[s] ELSE cached[s]]

refresh_store(cached, out) ==
  IF out = {} THEN cached ELSE CHOOSE m \in out : TRUE

\* self._cached.get(symbol_upper.upper())
cached_get(cached, sym) == cached[upper(sym).id]

\* _fetch from its start to its first suspension: limiter.acquire, then the GET.
\* The caller holds the registry lock.
FetchStart(t, l) ==
  LET a == limiter_acquire(lim_tokens, lim_last, now)
  IN /\ acquire_step(a)
     /\ running' = 0
     /\ IF a.granted
          THEN /\ pc' = [pc EXCEPT ![t] = "reg_http"]
               /\ loc' = l
          ELSE /\ pc' = [pc EXCEPT ![t] = "lim_sleep"]
               /\ loc' = [l EXCEPT ![t].wake = now + a.need]

\* amount = evt.amount_raw / (10 ** decimals): int / int, one rounding.
human_amount(amount_raw, decimals) == fdiv(amount_raw, Pow(10, decimals))

\* The (symbol, decimals) pair get_symbol_decimals returned to task t.
Meta(t) == CHOOSE m \in loc[t].sd : TRUE

\* registry.get_token_info called by task t (its locals so far: l1), up to its
\* first suspension or its return.
get_token_info(t, l1) ==
  LET m == CHOOSE x \in l1[t].sd : TRUE
  IN IF registry_fresh(reg_cached, reg_last, now)
       THEN /\ loc' = [l1 EXCEPT ![t].info = cached_get(reg_cached, m.symbol)]
            /\ hist' = [hist EXCEPT ![t].info_ret = cached_get(reg_cached, m.symbol),
                                    ![t].reg_waited = FALSE]
            /\ pc' = [pc EXCEPT ![t] = "price"]
            /\ running' = t
            /\ UNCHANGED regVars
       ELSE IF reg_lock = 0 /\ \A u \in Tasks : pc[u] # "reg_lock"
         THEN \* lock acquired at once; the second freshness test
              \* reads the same clock and the same snapshot
              /\ reg_lock' = t
              /\ FetchStart(t, l1)
              /\ hist' = [hist EXCEPT ![t].reg_waited = FALSE]
              /\ UNCHANGED <<reg_cached, reg_last, reg_fetched, reg_refreshed>>
         ELSE \* suspended on "async with self._lock"
              /\ loc' = l1
              /\ pc' = [pc EXCEPT ![t] = "reg_lock"]
              /\ hist' = [hist EXCEPT ![t].reg_waited = TRUE]
              /\ running' = 0
              /\ UNCHANGED regVars

\* on_transfer_in after metadata: the decimals range check, the amount, then
\* registry.get_token_info.
after_meta(t) ==
  /\ running = t
  /\ pc[t] = "after_meta"
  /\ LET m == Meta(t)
     IN IF m.decimals < 0 \/ m.decimals > 36
          THEN /\ Finish(t, "weird decimals")
               /\ UNCHANGED regVars
          ELSE LET l1 == [loc EXCEPT ![t].amount = human_amount(evt[t].amount_raw, m.decimals)]
               IN get_token_info(t, l1)
  /\ UNCHANGED <<now, envVars, feedVars, ntasks, evt, dedupVars, probeVars, metaVars, exchVars>>

\* A task waiting for the registry lock gets it once it is free.
reg_lock_acquired(t) ==
  /\ running = 0
  /\ pc[t] = "reg_lock"
  /\ reg_lock = 0
  /\ IF registry_fresh(reg_cached, reg_last, now)
       THEN /\ loc' = [loc EXCEPT ![t].info = cached_get(reg_cached, Meta(t).symbol)]
            /\ hist' = [hist EXCEPT ![t].info_ret = cached_get(reg_cached, Meta(t).symbol)]
            /\ pc' = [pc EXCEPT ![t] = "price"]
            /\ running' = t
            /\ UNCHANGED regVars
       ELSE /\ reg_lock' = t
            /\ FetchStart(t, loc)
            /\ UNCHANGED <<hist, reg_cached, reg_last, reg_fetched, reg_refreshed>>
  /\ UNCHANGED <<now, envVars, feedVars, ntasks, evt, dedupVars, probeVars, metaVars, exchVars>>

\* The limiter's sleep is over: acquire() calls itself again.
lim_wake(t) ==
  /\ running = 0
  /\ pc[t] = "lim_sleep"
  /\ now >= loc[t].wake
  /\ FetchStart(t, loc)
  /\ UNCHANGED <<now, envVars, feedVars, ntasks, evt, hist, dedupVars, probeVars, metaVars,
                 reg_cached, reg_last, reg_lock, reg_fetched, reg_refreshed, exchVars>>

\* The token-list GET completes with resp; refresh_if_needed stores the new
\* mapping or logs the failure, releases the lock, and get_token_info returns.
reg_http_done(t, resp) ==
  /\ running = 0
  /\ pc[t] = "reg_http"
  /\ LET out == fetch_result(resp)
         cached1 == refresh_store(reg_cached, out)
         info == cached_get(cached1, Meta(t).symbol)
     IN /\ reg_cached' = cached1
        /\ reg_last' = IF out # {} THEN now ELSE reg_last
        /\ reg_fetched' = IF out # {} THEN CHOOSE m \in out : TRUE ELSE reg_fetched
        /\ reg_refreshed' = (reg_refreshed \/ out # {})
        /\ reg_lock' = 0
        /\ loc' = [loc EXCEPT ![t].info = info]
        /\ hist' = [hist EXCEPT ![t].info_ret = info,
                                ![t].list_fetch = IF out # {} THEN "ok" ELSE "failed",
                                ![t].failed = IF out # {} THEN @ ELSE @ \cup {"token_list"}]
        /\ pc' = [pc EXCEPT ![t] = "price"]
        /\ running' = t
  /\ UNCHANGED <<now, envVars, feedVars, ntasks, evt, dedupVars, probeVars, metaVars,
                 lim_tokens, lim_last, lim_grants, exchVars>>

\* ----------------------------------------------------------- Futures trader

\* BinanceFuturesTrader._refresh_exchange_info_if_needed, given what
\* futures_exchange_info() would return (res = {}: it raises).
refresh_exchange_info(info, ts, t, res) ==
  IF info # {} /\ t - ts < ExchTTL THEN [ok |-> TRUE, info |-> info, ts |-> ts]
  ELSE IF res = {} THEN [ok |-> FALSE, info |-> info, ts |-> ts]
  ELSE [ok |-> TRUE, info |-> res, ts |-> t]

\* What a lookup of {symbol}USDT in the exchange information found.
market_status_of(r) ==
  IF ~r.ok THEN "error" ELSE (CHOOSE i \in r.info : TRUE).status

\* futures_symbol_exists after the refresh: listed with status TRADING; a
\* refresh that raised gives False.
symbol_trading_Optimistic(r) ==
  r.ok => \E i \in r.info : i.status = "TRADING"

symbol_trading(r) ==
  r.ok /\ \E i \in r.info : i.status = "TRADING"

\* _get_filters after the refresh: (step, min_qty) of the symbol, each the
\* float of the filter's decimal text, None as {}.
get_filters(info) ==
  LET i == CHOOSE x \in info : TRUE
  IN IF i.status = "absent" THEN [step |-> {}, min_qty |-> {}]
     ELSE [step |-> {to_float(s) : s \in i.step},
           min_qty |-> {to_float(m) : m \in i.min_qty}]

\* _round_step
round_step(qty, step) ==
  IF fle(step, <<0, 1>>) THEN qty
  ELSE fmul(<<ffloor(ffdiv(qty, step)), 1>>, step)

\* open_short_market: the order quantity from the notional and the mark price.
order_qty(notional, price, step) ==
  LET q == ffdiv(notional, price)
  IN IF step # {} /\ (CHOOSE s \in step : TRUE)[1] # 0
       THEN round_step(q, CHOOSE s \in step : TRUE)
       ELSE q

\* on_transfer_in: in_list and the price out of the list record.
price_lookup(t) ==
  /\ running = t
  /\ pc[t] = "price"
  /\ LET info == loc[t].info
         price == IF info # {} THEN extract_price_usdt(CHOOSE i \in info : TRUE) ELSE {}
     IN /\ loc' = [loc EXCEPT ![t].price = price]
        /\ IF price = {}
             THEN /\ pc' = [pc EXCEPT ![t] = "fb_exists"]
                  /\ UNCHANGED hist
             ELSE /\ pc' = [pc EXCEPT ![t] = "decide"]
                  /\ hist' = [hist EXCEPT ![t].price_src = "list"]
  /\ UNCHANGED <<now, envVars, feedVars, running, ntasks, evt, dedupVars, probeVars, metaVars,
                 regVars, exchVars>>

\* The fallback: trader.futures_symbol_exists before asking for a mark price.
fb_exists(t, res) ==
  /\ running = t
  /\ pc[t] = "fb_exists"
  /\ LET r == refresh_exchange_info(exch_info, exch_ts, now, res)
     IN /\ exch_info' = r.info
        /\ exch_ts' = r.ts
        /\ IF symbol_trading(r)
             THEN /\ pc' = [pc EXCEPT ![t] = "fb_mark"]
                  /\ UNCHANGED <<running, hist, loc>>
             ELSE IF r.ok
               THEN Finish(t, "price unavailable")
               ELSE FinishFailed(t, "exchange_info", "price unavailable")
  /\ UNCHANGED <<now, envVars, feedVars, ntasks, evt, dedupVars, probeVars, metaVars, regVars>>

\* The fallback: trader.get_mark_price (mp = {}: the call raised, None).
fb_mark(t, mp) ==
  /\ running = t
  /\ pc[t] = "fb_mark"
  /\ IF mp = {}
       THEN FinishFailed(t, "mark_price", "price unavailable")
       ELSE /\ loc' = [loc EXCEPT ![t].price = mp]
            /\ hist' = [hist EXCEPT ![t].price_src = "mark"]
            /\ pc' = [pc EXCEPT ![t] = "decide"]
            /\ UNCHANGED running
  /\ UNCHANGED <<now, envVars, feedVars, ntasks, evt, dedupVars, probeVars, metaVars, regVars, exchVars>>

\* value_usdt = amount * price
value_of(amount, price) == fmul(amount, price)

\* "if value_usdt < self.trigger_value_usdt: return"
below_trigger(value, trigger) == flt(value, trigger)

\* on_transfer_in: the value, the unlisted-token rule and the trigger test.
decide(t) ==
  /\ running = t
  /\ pc[t] = "decide"
  /\ LET value == value_of(loc[t].amount, CHOOSE p \in loc[t].price : TRUE)
         h1 == [hist EXCEPT ![t].price = loc[t].price, ![t].value_usdt = {value},
                            ![t].in_list = (loc[t].info # {})]
     IN IF loc[t].info = {} /\ ~cfg.trade_when_token_not_in_list
          THEN /\ pc' = [pc EXCEPT ![t] = "done"]
               /\ hist' = [h1 EXCEPT ![t].outcome = "not in list"]
               /\ loc' = [loc EXCEPT ![t] = InitLoc]
               /\ running' = 0
          ELSE IF below_trigger(value, to_float(cfg.trigger_value_usdt))
            THEN /\ pc' = [pc EXCEPT ![t] = "done"]
                 /\ hist' = [h1 EXCEPT ![t].outcome = "below trigger"]
                 /\ loc' = [loc EXCEPT ![t] = InitLoc]
                 /\ running' = 0
            ELSE /\ pc' = [pc EXCEPT ![t] = "chk_exists"]
                 /\ hist' = [h1 EXCEPT ![t].decided = TRUE]
                 /\ UNCHANGED <<running, loc>>
  /\ UNCHANGED <<now, envVars, feedVars, ntasks, evt, dedupVars, probeVars, metaVars,
                 regVars, exchVars>>

\* After the trigger: trader.futures_symbol_exists, then the call of
\* open_short_market.
chk_exists(t, res) ==
  /\ running = t
  /\ pc[t] = "chk_exists"
  /\ LET r == refresh_exchange_info(exch_info, exch_ts, now, res)
         h1 == [hist EXCEPT ![t].market_status = market_status_of(r),
                            ![t].failed = IF r.ok THEN @ ELSE @ \cup {"exchange_info"}]
     IN /\ exch_info' = r.info
        /\ exch_ts' = r.ts
        /\ IF symbol_trading(r)
             THEN /\ pc' = [pc EXCEPT ![t] = "osm_mark"]
                  /\ hist' = [h1 EXCEPT ![t].order_req = TRUE]
                  /\ UNCHANGED <<running, loc>>
             ELSE /\ pc' = [pc EXCEPT ![t] = "done"]
                  /\ hist' = [h1 EXCEPT ![t].outcome = "no futures market"]
                  /\ loc' = [loc EXCEPT ![t] = InitLoc]
                  /\ running' = 0
  /\ UNCHANGED <<now, envVars, feedVars, ntasks, evt, dedupVars, probeVars, metaVars, regVars>>

\* open_short_market: get_mark_price and the "not price or price <= 0" test.
osm_mark(t, mp) ==
  /\ running = t
  /\ pc[t] = "osm_mark"
  /\ IF mp = {}
       THEN FinishFailed(t, "mark_price", "short failed")
       ELSE IF ~flt(<<0, 1>>, CHOOSE p \in mp : TRUE)
         THEN Finish(t, "short failed")
         ELSE /\ loc' = [loc EXCEPT ![t].mark = mp]
              /\ pc' = [pc EXCEPT ![t] = "osm_filters"]
              /\ UNCHANGED <<running, hist>>
  /\ UNCHANGED <<now, envVars, feedVars, ntasks, evt, dedupVars, probeVars, metaVars, regVars, exchVars>>

\* open_short_market: _get_filters, the quantity and the minQty test.
osm_filters(t, res) ==
  /\ running = t
  /\ pc[t] = "osm_filters"
  /\ LET r == refresh_exchange_info(exch_info, exch_ts, now, res)
     IN /\ exch_info' = r.info
        /\ exch_ts' = r.ts
        /\ IF ~r.ok
             THEN \* the refresh raised: caught by open_short_market, None
                  FinishFailed(t, "exchange_info", "short failed")
             ELSE LET f == get_filters(r.info)
                      qty == order_qty(to_float(cfg.short_notional_usdt),
                                       CHOOSE p \in loc[t].mark : TRUE, f.step)
                  IN IF f.min_qty # {} /\ (CHOOSE m \in f.min_qty : TRUE)[1] # 0
                          /\ flt(qty, CHOOSE m \in f.min_qty : TRUE)
                       THEN Finish(t, "short failed")
                       ELSE /\ loc' = [loc EXCEPT ![t].qty = {qty}]
                            /\ pc' = [pc EXCEPT ![t] = "osm_order"]
                            /\ UNCHANGED <<running, hist>>
  /\ UNCHANGED <<now, envVars, feedVars, ntasks, evt, dedupVars, probeVars, metaVars, regVars>>

\* open_short_market: margin type and leverage (best effort), then the market
\* order; back in on_transfer_in, the "if order" branch.
osm_order_Unchecked(t, margin_ok, leverage_ok, order_ok) ==
  /\ running = t
  /\ pc[t] = "osm_order"
  /\ LET soft == (IF margin_ok THEN {} ELSE {"margin_type"})
                   \cup (IF leverage_ok THEN {} ELSE {"leverage"})
         h1 == [hist EXCEPT ![t].failed_pre = hist[t].failed,
                            ![t].failed = @ \cup soft,
                            ![t].order_sent = TRUE,
                            ![t].order_ok = order_ok]
     IN IF FALSE
          THEN /\ pc' = [pc EXCEPT ![t] = "done"]
               /\ hist' = [h1 EXCEPT ![t].outcome = "short failed",
                                     ![t].failed = @ \cup {"order"}]
               /\ loc' = [loc EXCEPT ![t] = InitLoc]
               /\ running' = 0
          ELSE IF flt(<<0, 1>>, to_float(cfg.take_profit_pct))
                    \/ flt(<<0, 1>>, to_float(cfg.stop_loss_pct))
            THEN /\ pc' = [pc EXCEPT ![t] = "tp_mark"]
                 /\ hist' = h1
                 /\ UNCHANGED <<running, loc>>
            ELSE /\ pc' = [pc EXCEPT ![t] = "done"]
                 /\ hist' = [h1 EXCEPT ![t].outcome = "short opened"]
                 /\ loc' = [loc EXCEPT ![t] = InitLoc]
                 /\ running' = 0
  /\ UNCHANGED <<now, envVars, feedVars, ntasks, evt, dedupVars, probeVars, metaVars,
                 regVars, exchVars>>

osm_order(t, margin_ok, leverage_ok, order_ok) ==
  /\ running = t
  /\ pc[t] = "osm_order"
  /\ LET soft == (IF margin_ok THEN {} ELSE {"margin_type"})
                   \cup (IF leverage_ok THEN {} ELSE {"leverage"})
         h1 == [hist EXCEPT ![t].failed_pre = hist[t].failed,
                            ![t].failed = @ \cup soft,
                            ![t].order_sent = TRUE,
                            ![t].order_ok = order_ok]
     IN IF ~order_ok
          THEN /\ pc' = [pc EXCEPT ![t] = "done"]
               /\ hist' = [h1 EXCEPT ![t].outcome = "short failed",
                                     ![t].failed = @ \cup {"order"}]
               /\ loc' = [loc EXCEPT ![t] = InitLoc]
               /\ running' = 0
          ELSE IF flt(<<0, 1>>, to_float(cfg.take_profit_pct))
                    \/ flt(<<0, 1>>, to_float(cfg.stop_loss_pct))
            THEN /\ pc' = [pc EXCEPT ![t] = "tp_mark"]
                 /\ hist' = h1
                 /\ UNCHANGED <<running, loc>>
            ELSE /\ pc' = [pc EXCEPT ![t] = "done"]
                 /\ hist' = [h1 EXCEPT ![t].outcome = "short opened"]
                 /\ loc' = [loc EXCEPT ![t] = InitLoc]
                 /\ running' = 0
  /\ UNCHANGED <<now, envVars, feedVars, ntasks, evt, dedupVars, probeVars, metaVars,
                 regVars, exchVars>>

\* After the order: the entry price for TP/SL from get_mark_price.
tp_mark(t, mp) ==
  /\ running = t
  /\ pc[t] = "tp_mark"
  /\ IF mp = {}
       THEN FinishFailed(t, "mark_price", "short opened")
       ELSE IF ~flt(<<0, 1>>, CHOOSE p \in mp : TRUE)
         THEN Finish(t, "short opened")
         ELSE /\ loc' = [loc EXCEPT ![t].mark = mp]
              /\ pc' = [pc EXCEPT ![t] = "tp_place"]
              /\ UNCHANGED <<running, hist>>
  /\ UNCHANGED <<now, envVars, feedVars, ntasks, evt, dedupVars, probeVars, metaVars, regVars, exchVars>>

\* A Decimal is a pair <<c, e>> standing for c / 10^e (e fractional digits).
\* str(x) of a positive float: the shortest decimal text that float() reads
\* back as x (the nearest to x of that length), with at least one fractional
\* digit; as the Decimal that Decimal(str(x)) makes of it.
RECURSIVE str_float(_, _)
str_float(x, e) ==
  LET scaled == x[1] * Pow(10, e)
      lo == scaled \div x[2]
      cands == {c \in {lo, lo + 1} : to_float(<<c, Pow(10, e)>>) = x}
  IN IF cands = {} THEN str_float(x, e + 1)
     ELSE IF lo \in cands /\ (lo + 1 \notin cands \/ 2 * scaled - 2 * lo * x[2] <= x[2])
       THEN <<lo, e>>
       ELSE <<lo + 1, e>>
Decimal_of(x) == str_float(x, 1)

\* format(d, "f") of a nonnegative Decimal: its characters.
DigitChars == <<"0", "1", "2", "3", "4", "5", "6", "7", "8", "9">>
RECURSIVE NatStr(_)
NatStr(n) == IF n < 10 THEN <<DigitChars[n + 1]>>
             ELSE Append(NatStr(n \div 10), DigitChars[(n % 10) + 1])
RECURSIVE PadZeros(_, _)
PadZeros(s, w) == IF Len(s) >= w THEN s ELSE PadZeros(<<"0">> \o s, w)
format_f(d) ==
  IF d[2] = 0 THEN NatStr(d[1])
  ELSE NatStr(d[1] \div Pow(10, d[2])) \o <<".">>
         \o PadZeros(NatStr(d[1] % Pow(10, d[2])), d[2])

\* _round_to_tick_str for a positive price: (p / t) cut to an integer
\* (ROUND_DOWN), times t, quantized to t's exponent, formatted "f".  tick is
\* {} for None.
round_to_tick_str_Nearest(price, tick) ==
  IF tick = {} \/ \E t \in tick : fle(t, <<0, 1>>) THEN format_f(Decimal_of(price))
  ELSE LET p == Decimal_of(price)
           t == Decimal_of(CHOOSE x \in tick : TRUE)
           multiple == (2 * p[1] * Pow(10, t[2]) + t[1] * Pow(10, p[2]))
                         \div (2 * t[1] * Pow(10, p[2]))
       IN format_f(<<multiple * t[1], t[2]>>)

round_to_tick_str(price, tick) ==
  IF tick = {} \/ \E t \in tick : fle(t, <<0, 1>>) THEN format_f(Decimal_of(price))
  ELSE LET p == Decimal_of(price)
           t == Decimal_of(CHOOSE x \in tick : TRUE)
           multiple == (p[1] * Pow(10, t[2])) \div (t[1] * Pow(10, p[2]))
           rounded == <<multiple * t[1], t[2]>>
       IN format_f(rounded)

\* _get_tick_size after the refresh: the float of the PRICE_FILTER tickSize
\* text, None as {}.
get_tick_size(info) ==
  LET i == CHOOSE x \in info : TRUE
  IN IF i.status = "absent" THEN {} ELSE {to_float(x) : x \in i.tick}

\* The triggerPrice text for a trigger price ({}: no such order).
trigger_text(price, tick) ==
  {IF tick # {} /\ (CHOOSE x \in tick : TRUE)[1] # 0
     THEN round_to_tick_str(p, tick)
     ELSE format_f(Decimal_of(p)) : p \in price}

\* place_tp_sl_for_short: the tick size lookup, then the take-profit and the
\* stop-loss orders; an order that raises ends the function.
tp_place(t, res, tp_ok, sl_ok) ==
  /\ running = t
  /\ pc[t] = "tp_place"
  /\ LET r == refresh_exchange_info(exch_info, exch_ts, now, res)
         entry == CHOOSE p \in loc[t].mark : TRUE
         tp == to_float(cfg.take_profit_pct)
         sl == to_float(cfg.stop_loss_pct)
         tp_price == IF flt(<<0, 1>>, tp) THEN {fmul(entry, fsub(<<1, 1>>, tp))} ELSE {}
         sl_price == IF flt(<<0, 1>>, sl) THEN {fmul(entry, fadd(<<1, 1>>, sl))} ELSE {}
         want_tp == \E p \in tp_price : flt(<<0, 1>>, p)
         want_sl == \E p \in sl_price : flt(<<0, 1>>, p)
         sl_reached == r.ok /\ (want_tp => tp_ok)
         tick == IF r.ok THEN get_tick_size(r.info) ELSE {}
     IN /\ exch_info' = r.info
        /\ exch_ts' = r.ts
        /\ pc' = [pc EXCEPT ![t] = "done"]
        /\ running' = 0
        /\ loc' = [loc EXCEPT ![t] = InitLoc]
        /\ hist' = [hist EXCEPT
             ![t].outcome = "short opened",
             ![t].tp_sent = r.ok /\ want_tp,
             ![t].sl_sent = sl_reached /\ want_sl,
             ![t].tp_trigger = IF r.ok /\ want_tp THEN trigger_text(tp_price, tick) ELSE {},
             ![t].sl_trigger = IF sl_reached /\ want_sl THEN trigger_text(sl_price, tick) ELSE {},
             ![t].failed = @ \cup (IF r.ok THEN {} ELSE {"exchange_info"})
                             \cup (IF r.ok /\ want_tp /\ ~tp_ok THEN {"tp_order"} ELSE {})
                             \cup (IF sl_reached /\ want_sl /\ ~sl_ok THEN {"sl_order"} ELSE {})]
  /\ UNCHANGED <<now, envVars, feedVars, ntasks, evt, dedupVars, probeVars, metaVars, regVars>>

\* Time passes while no task holds the event loop.
Tick ==
  /\ running = 0
  /\ now < world.max_time
  /\ now' = now + 1
  /\ UNCHANGED <<envVars, feedVars, taskVars, dedupVars, probeVars, metaVars, regVars, exchVars>>

\* ------------------------------------------------------------- Event feed

\* BscWsListener._parse_message: {} for None.  Any exception inside gives None.
parse_message_NoFilter(msg) ==
  IF ~msg.has_result \/ Len(msg.topics) < 3 THEN {}
  ELSE LET to == norm_addr(topic_addr(msg.topics[3]))
       IN IF msg.address = {} \/ norm_addr(topic_addr(msg.topics[2])) = {}
             \/ to = {} \/ msg.data = {} \/ ~msg.block_ok
            THEN {}
            ELSE {[tx_hash |-> msg.tx_hash, token_contract |-> CHOOSE c \in msg.address : TRUE,
                   amount_raw |-> CHOOSE n \in msg.data : TRUE,
                   to_addr |-> CHOOSE a \in to : TRUE]}

parse_message(msg) ==
  IF ~msg.has_result \/ Len(msg.topics) < 3 THEN {}
  ELSE LET to == norm_addr(topic_addr(msg.topics[3]))
       IN IF msg.address = {} \/ norm_addr(topic_addr(msg.topics[2])) = {}
             \/ to = {} \/ to # {watch_address} \/ msg.data = {} \/ ~msg.block_ok
            THEN {}
            ELSE {[tx_hash |-> msg.tx_hash, token_contract |-> CHOOSE c \in msg.address : TRUE,
                   amount_raw |-> CHOOSE n \in msg.data : TRUE,
                   to_addr |-> CHOOSE a \in to : TRUE]}

\* listen: where an exception raised inside the try block leads.
\* "except asyncio.CancelledError: raise" ends the generator; "except
\* Exception" goes to the backoff sleep.
after_exception_Swallow(exc) == "backoff"

after_exception(exc) ==
  IF exc = "CancelledError" THEN "ended" ELSE "backoff"

\* websockets.connect(...) returns or raises.
feed_connect(ok) ==
  /\ fpc = "connecting"
  /\ IF ok
       THEN /\ backoff' = BackoffInit
            /\ fpc' = "subscribing"
            /\ feed_event' = "connected"
            /\ UNCHANGED feed_fails
       ELSE /\ feed_fails < MaxFails
            /\ fpc' = after_exception("Exception")
            /\ feed_event' = "connect_failed"
            /\ feed_fails' = feed_fails + 1
            /\ UNCHANGED backoff
  /\ feed_msg' = {} /\ feed_yield' = {}
  /\ feed_sub' = "none"
  /\ UNCHANGED feed_slept
  /\ UNCHANGED <<now, envVars, taskVars, dedupVars, probeVars, metaVars, regVars, exchVars>>

\* What comes back for the eth_subscribe request: a reply whose "result" is a
\* subscription id; a reply whose "result" is null (with or without an
\* "error" member beside it); a reply without "result" (an error reply); no
\* reply within 5 s; a closed connection or a failed send.
SubscribeReplies == {"result", "null_result", "no_result", "timeout", "closed"}

\* _subscribe_logs: the test '"result" not in data' passes, and what
\* data["result"] is then.
reply_accepted(reply) == reply \in {"result", "null_result"}

sub_id_of(reply) == IF reply = "result" THEN "id" ELSE "null"

\* _subscribe_logs: the request is sent and the reply awaited (5 s); a send
\* failure, a timeout, a reply without "result", a closed connection all raise.
feed_subscribe(reply) ==
  /\ fpc = "subscribing"
  /\ IF reply_accepted(reply)
       THEN /\ fpc' = "streaming"
            /\ feed_event' = "subscribed"
            /\ feed_fails' = 0
            /\ feed_sub' = sub_id_of(reply)
       ELSE /\ feed_fails < MaxFails
            /\ fpc' = after_exception("Exception")
            /\ feed_event' = "subscribe_failed"
            /\ feed_fails' = feed_fails + 1
            /\ UNCHANGED feed_sub
  /\ feed_msg' = {} /\ feed_yield' = {}
  /\ UNCHANGED <<backoff, feed_slept>>
  /\ UNCHANGED <<now, envVars, taskVars, dedupVars, probeVars, metaVars, regVars, exchVars>>

\* "async for msg in ws": one message arrives, is parsed, and is yielded to
\* main when it is a transfer to the watched address.
feed_message(msg) ==
  /\ fpc = "streaming"
  /\ feed_msg' = {msg}
  /\ feed_yield' = parse_message(msg)
  /\ feed_event' = "message"
  /\ UNCHANGED <<fpc, backoff, feed_slept, feed_fails, feed_sub>>
  /\ UNCHANGED <<now, envVars, taskVars, dedupVars, probeVars, metaVars, regVars, exchVars>>

\* The message stream ends: with an exception (receive error), or normally
\* (the connection closed cleanly), which leaves the "async with" and
\* goes round the while loop at once.
feed_stream_end(clean) ==
  /\ fpc = "streaming"
  /\ IF clean
       THEN fpc' = "connecting" /\ feed_event' = "closed" /\ UNCHANGED feed_fails
       ELSE /\ feed_fails < MaxFails
            /\ fpc' = after_exception("Exception") /\ feed_event' = "receive_error"
            /\ feed_fails' = feed_fails + 1
  /\ feed_msg' = {} /\ feed_yield' = {}
  /\ UNCHANGED <<backoff, feed_slept, feed_sub>>
  /\ UNCHANGED <<now, envVars, taskVars, dedupVars, probeVars, metaVars, regVars, exchVars>>

\* The backoff sleep in the except branch is over: backoff doubles, capped.
feed_backoff_done ==
  /\ fpc = "backoff"
  /\ feed_slept' = Min(backoff, BackoffCap)
  /\ backoff' = Min(backoff * 2, BackoffCap)
  /\ fpc' = "connecting"
  /\ feed_event' = "slept"
  /\ feed_msg' = {} /\ feed_yield' = {}
  /\ UNCHANGED <<feed_fails, feed_sub>>
  /\ UNCHANGED <<now, envVars, taskVars, dedupVars, probeVars, metaVars, regVars, exchVars>>

\* The feed task is cancelled while suspended: in the try block the
\* CancelledError goes through the except clauses; in the backoff sleep it
\* leaves the handler directly.
feed_cancel ==
  /\ fpc # "ended"
  /\ fpc' = IF fpc = "backoff" THEN "ended" ELSE after_exception("CancelledError")
  /\ feed_event' = "cancelled"
  /\ feed_msg' = {} /\ feed_yield' = {}
  /\ UNCHANGED <<backoff, feed_slept, feed_fails, feed_sub>>
  /\ UNCHANGED <<now, envVars, taskVars, dedupVars, probeVars, metaVars, regVars, exchVars>>

\* ------------------------------------------------ WorkerController (server)

Pids == 1..MaxPids
\* state.pid is None, PID_FILE does not exist.
NoPid == 0
\* last_error is None, or the repr of the exception caught.
NoError == "None"

\* _pid_is_running: os.kill(pid, 0); ProcessLookupError means gone,
\* PermissionError means there.  A pid of the system is free ("none"), a
\* process this server may signal ("own"), or a process of another user
\* ("foreign": os.kill raises PermissionError).
pid_is_running(ps, pid) == ps[pid] # "none"

\* WorkerState()
WorkerState == [pid |-> NoPid, started_at |-> {}, last_exit_code |-> {},
                last_error |-> NoError]

\* WorkerController.__init__: the pid of the pidfile is taken over when that
\* process exists, else the pidfile is removed.
controller_init(pf, ps) ==
  IF pf # NoPid /\ pid_is_running(ps, pf)
    THEN [state |-> [WorkerState EXCEPT !.pid = pf], pidfile |-> pf]
    ELSE [state |-> WorkerState, pidfile |-> NoPid]

\* WorkerController.status: the dict returned, and state and pidfile after it
\* (a pid whose process is gone is forgotten and the pidfile removed).
status(s, pf, ps) ==
  LET pid == s.pid
      alive == pid # NoPid /\ pid_is_running(ps, pid)
      stale == pid # NoPid /\ ~alive
  IN [state |-> IF stale THEN [s EXCEPT !.pid = NoPid] ELSE s,
      pidfile |-> IF stale THEN NoPid ELSE pf,
      ret |-> [ok |-> TRUE, running |-> alive,
               pid |-> IF alive THEN pid ELSE NoPid,
               started_at |-> s.started_at,
               last_exit_code |-> s.last_exit_code,
               last_error |-> s.last_error]]

\* A dict display {**a, **b}: for a key of both, the later value stays.
dict_merge(a, b) ==
  [k \in DOMAIN a \cup DOMAIN b |-> IF k \in DOMAIN b THEN b[k] ELSE a[k]]

\* {"ok": ok, **self.status(), "msg": msg}
result_dict(ok, st, msg) == dict_merge(dict_merge([ok |-> ok], st), [msg |-> msg])

\* start() or stop() returns: the dict built from a last status() call on
\* state s, and the record of the operation (why: the call that raised,
\* "none" when the except branch was not taken).
Return(op, why, ok, s, pf, ps, msg) ==
  LET st == status(s, pf, ps)
  IN /\ state' = st.state
     /\ pidfile' = st.pidfile
     /\ procs' = ps
     /\ result' = result_dict(ok, st.ret, msg)
     /\ last_op' = [op |-> op, failed |-> why # "none", why |-> why, returned |-> TRUE]
     /\ wpc' = "idle"
     /\ stop_pid' = NoPid
     /\ polls_left' = 0

\* The ways subprocess.Popen and the lines after it go: the worker is spawned
\* and its pid written; Popen raises; the worker is spawned and
\* _write_pidfile raises.
SpawnOutcomes == {"spawned", "popen_raised", "pidfile_raised"}

\* WorkerController.start(enable): it has no await under the lock, so it runs
\* as one step once it holds the lock.
ctl_start(enable, spawn, p) ==
  /\ wpc = "idle"
  /\ LET st == status(state, pidfile, procs)
     IN IF ~enable
          THEN Return("start", "none", TRUE, state, pidfile, procs,
                      "enable=false, not starting")
          ELSE IF st.ret.running
            THEN Return("start", "none", TRUE, st.state, st.pidfile, procs, "already running")
            ELSE IF spawn = "popen_raised"
              THEN Return("start", "spawn", FALSE,
                          [st.state EXCEPT !.last_error = "OSError"], st.pidfile,
                          procs, "start failed")
              ELSE /\ procs[p] = "none"
                   /\ LET s1 == [st.state EXCEPT !.pid = p, !.started_at = {now},
                                                 !.last_exit_code = {},
                                                 !.last_error = NoError]
                          ps1 == [procs EXCEPT ![p] = "own"]
                      IN IF spawn = "spawned"
                           THEN Return("start", "none", TRUE, s1, p, ps1, "started")
                           ELSE Return("start", "pidfile", FALSE,
                                       [s1 EXCEPT !.last_error = "OSError"],
                                       st.pidfile, ps1, "start failed")
  /\ UNCHANGED <<now, world, cfg, feedVars, taskVars, dedupVars, probeVars, metaVars,
                 regVars, exchVars>>

\* What os.getpgid / os.killpg(pgid, SIGTERM) do: the signal is delivered; the
\* process has just gone (ProcessLookupError); another exception.
SignalOutcomes == {"sent", "lookup_error", "raised"}

\* WorkerController.stop(timeout_sec) from the lock to its first await or its
\* return; polls is the number of 0.2 s waits timeout_sec allows.
ctl_stop(polls, sig) ==
  /\ wpc = "idle"
  /\ LET st == status(state, pidfile, procs)
         pid == st.ret.pid
     IN IF ~st.ret.running
          THEN Return("stop", "none", TRUE, st.state, st.pidfile, procs, "already stopped")
          ELSE CASE sig = "lookup_error" ->
                      Return("stop", "none", TRUE, [st.state EXCEPT !.pid = NoPid], NoPid,
                             [procs EXCEPT ![pid] = "none"], "already exited")
                 [] sig = "raised" ->
                      /\ procs[pid] = "foreign"
                      /\ Return("stop", "signal", FALSE,
                                [st.state EXCEPT !.last_error = "PermissionError"],
                                st.pidfile, procs, "stop failed")
                 [] sig = "sent" ->
                      /\ procs[pid] = "own"
                      /\ state' = st.state
                      /\ pidfile' = st.pidfile
                      /\ wpc' = "stop_wait"
                      /\ stop_pid' = pid
                      /\ polls_left' = polls
                      /\ last_op' = [op |-> "stop", failed |-> FALSE, why |-> "none", returned |-> FALSE]
                      /\ UNCHANGED <<procs, result>>
  /\ UNCHANGED <<now, world, cfg, feedVars, taskVars, dedupVars, probeVars, metaVars,
                 regVars, exchVars>>

\* stop: one pass of the loop that waits for the exit.
ctl_stop_poll ==
  /\ wpc = "stop_wait"
  /\ polls_left > 0
  /\ IF ~pid_is_running(procs, stop_pid)
       THEN Return("stop", "none", TRUE, [state EXCEPT !.pid = NoPid], NoPid, procs,
                   "stopped (SIGTERM)")
       ELSE /\ polls_left' = polls_left - 1
            /\ UNCHANGED <<state, pidfile, procs, wpc, stop_pid, result, last_op>>
  /\ UNCHANGED <<now, world, cfg, feedVars, taskVars, dedupVars, probeVars, metaVars,
                 regVars, exchVars>>

\* stop: the deadline has passed, SIGKILL to the group.  ProcessLookupError
\* is passed over; any other exception leaves stop() (no dict is returned).
ctl_stop_kill ==
  /\ wpc = "stop_wait"
  /\ polls_left = 0
  /\ IF procs[stop_pid] = "foreign"
       THEN /\ wpc' = "idle"
            /\ stop_pid' = NoPid
            /\ last_op' = [op |-> "stop", failed |-> TRUE, why |-> "signal", returned |-> FALSE]
            /\ UNCHANGED procs
       ELSE /\ wpc' = "stop_killed"
            /\ procs' = [procs EXCEPT ![stop_pid] = "none"]
            /\ UNCHANGED <<stop_pid, last_op>>
  /\ UNCHANGED <<state, pidfile, polls_left, result>>
  /\ UNCHANGED <<now, world, cfg, feedVars, taskVars, dedupVars, probeVars, metaVars,
                 regVars, exchVars>>

\* stop: after the last sleep.
ctl_stop_end ==
  /\ wpc = "stop_killed"
  /\ Return("stop", "none", TRUE, [state EXCEPT !.pid = NoPid], NoPid, procs,
            "killed (SIGKILL)")
  /\ UNCHANGED <<now, world, cfg, feedVars, taskVars, dedupVars, probeVars, metaVars,
                 regVars, exchVars>>

\* handle_status: status() is called without the lock, whenever the loop is
\* free.
ctl_status ==
  /\ LET st == status(state, pidfile, procs)
     IN /\ state' = st.state
        /\ pidfile' = st.pidfile
  /\ UNCHANGED <<procs, wpc, stop_pid, polls_left, result, last_op>>
  /\ UNCHANGED <<now, world, cfg, feedVars, taskVars, dedupVars, probeVars, metaVars,
                 regVars, exchVars>>

\* A process ends (the worker exits or crashes, or a signal takes effect).
os_exit(p) ==
  /\ procs[p] # "none"
  /\ procs' = [procs EXCEPT ![p] = "none"]
  /\ UNCHANGED <<state, pidfile, wpc, stop_pid, polls_left, result, last_op>>
  /\ UNCHANGED <<now, world, cfg, feedVars, taskVars, dedupVars, probeVars, metaVars,
                 regVars, exchVars>>

\* A free pid is given to a process of another user.
os_foreign(p) ==
  /\ procs[p] = "none"
  /\ procs' = [procs EXCEPT ![p] = "foreign"]
  /\ UNCHANGED <<state, pidfile, wpc, stop_pid, polls_left, result, last_op>>
  /\ UNCHANGED <<now, world, cfg, feedVars, taskVars, dedupVars, probeVars, metaVars,
                 regVars, exchVars>>

\* create_app: the controller is constructed over the pidfile pf and the
\* processes ps it finds; no start() or stop() has returned yet.
InitWorker(pf, ps) ==
  /\ procs = ps
  /\ state = controller_init(pf, ps).state
  /\ pidfile = controller_init(pf, ps).pidfile
  /\ wpc = "idle"
  /\ stop_pid = NoPid
  /\ polls_left = 0
  /\ result = result_dict(TRUE, status(WorkerState, NoPid, ps).ret, "none")
  /\ last_op = [op |-> "none", failed |-> FALSE, why |-> "none", returned |-> FALSE]

\* ------------------------------------------------------------ specification

\* The runs explored: a burst of transfers of one token against a small
\* environment, and a single transfer against every configuration and every
\* answer of the list source and the venue.
Burst == [max_events |-> MaxTasks, max_time |-> MaxTime, contracts |-> {1},
          amounts |-> {30}, rich |-> FALSE]
Single == [max_events |-> 1, max_time |-> 0, contracts |-> Contracts,
           amounts |-> Amounts, rich |-> TRUE]
BurstSettings == [trigger_value_usdt |-> <<5, 1>>, short_notional_usdt |-> <<4, 1>>,
                  trade_when_token_not_in_list |-> TRUE,
                  take_profit_pct |-> <<1, 4>>, stop_loss_pct |-> <<1, 2>>]

ListAnswers ==
  IF world.rich THEN ListResponses
  ELSE {r \in ListResponses :
          \/ ~r.ok
          \/ /\ r.shape = "data_list"
             /\ r.tokens[OtherSym] = {} <=> r.tokens[1] # {}
             /\ \A x \in r.tokens[1] : x.price = Num(<<2, 1>>)}
ExchangeAnswers ==
  IF world.rich THEN ExchangeResults
  ELSE {{i} : i \in {x \in ExchangeInfos : x.status = "TRADING" /\ x.step = {}}}
MarkAnswers == IF world.rich THEN MarkResults ELSE {{<<3, 1>>}}
OrderAnswers == IF world.rich THEN BOOLEAN ELSE {TRUE}
MetaAnswers ==
  IF world.rich THEN CallResults \X CallResults
  ELSE {<<"value", "value">>, <<"exception", "value">>}

\* The pipeline's state when main starts.
InitPipeline ==
  /\ now = 0
  /\ running = 0
  /\ ntasks = 0
  /\ pc = [t \in Tasks |-> "unborn"]
  /\ evt = [t \in Tasks |-> NoEvt]
  /\ loc = [t \in Tasks |-> InitLoc]
  /\ hist = [t \in Tasks |-> InitHist]
  /\ seen_txs = {}
  /\ cleared = FALSE
  /\ dd_prev = <<NoHash, FALSE>>
  /\ dd_last = <<NoHash, FALSE>>
  /\ meta_cache = [c \in Contracts |-> {}]
  /\ inflight = [c \in Contracts |-> 0]
  /\ fut = [t \in Tasks |-> [state |-> "none", val |-> {}]]
  /\ eth_calls = [c \in Contracts |-> [symbol |-> 0, decimals |-> 0]]
  /\ reg_cached = EmptySnapshot
  /\ reg_last = 0
  /\ reg_lock = 0
  /\ reg_fetched = EmptySnapshot
  /\ reg_refreshed = FALSE
  /\ lim_tokens = LimMaxCalls * LimTicksPerToken
  /\ lim_last = 0
  /\ lim_grants = <<>>
  /\ fpc = "connecting"
  /\ backoff = BackoffInit
  /\ feed_event = "none"
  /\ feed_msg = {}
  /\ feed_yield = {}
  /\ feed_slept = 0
  /\ feed_fails = 0
  /\ feed_sub = "none"
  /\ exch_info = {}
  /\ exch_ts = 0

\* The pipeline on its own: no pidfile, no worker process.
InitRest ==
  /\ InitPipeline
  /\ InitWorker(NoPid, [p \in Pids |-> "none"])

\* The tasks suspended or running at a given point of on_transfer_in.
At(l) == {t \in Tasks : pc[t] = l}

Next ==
  \/ \E e \in ERC20TransferIn : Dispatch(e)
  \/ \E t \in At("ready") : Start(t)
  \/ \E t \in At("meta_call") : get_symbol_decimals(t)
  \/ \E t \in At("meta_fetch"), r \in MetaAnswers : fetch_done(t, r[1], r[2])
  \/ \E t \in At("meta_wait") : wait_done(t)
  \/ \E t \in At("meta_wait") : wait_timeout(t)
  \/ \E t \in At("after_meta") : after_meta(t)
  \/ \E t \in At("reg_lock") : reg_lock_acquired(t)
  \/ \E t \in At("lim_sleep") : lim_wake(t)
  \/ \E t \in At("reg_http"), resp \in ListAnswers : reg_http_done(t, resp)
  \/ \E t \in At("price") : price_lookup(t)
  \/ \E t \in At("fb_exists"), res \in ExchangeAnswers : fb_exists(t, res)
  \/ \E t \in At("fb_mark"), mp \in MarkAnswers : fb_mark(t, mp)
  \/ \E t \in At("decide") : decide(t)
  \/ \E t \in At("chk_exists"), res \in ExchangeAnswers : chk_exists(t, res)
  \/ \E t \in At("osm_mark"), mp \in MarkAnswers : osm_mark(t, mp)
  \/ \E t \in At("osm_filters"), res \in ExchangeAnswers : osm_filters(t, res)
  \/ \E t \in At("osm_order"), margin_ok, leverage_ok, order_ok \in OrderAnswers :
       osm_order(t, margin_ok, leverage_ok, order_ok)
  \/ \E t \in At("tp_mark"), mp \in MarkAnswers : tp_mark(t, mp)
  \/ \E t \in At("tp_place"), res \in ExchangeAnswers, tp_ok, sl_ok \in OrderAnswers :
       tp_place(t, res, tp_ok, sl_ok)
  \/ Tick

Init ==
  /\ \/ world = Burst /\ cfg = BurstSettings
     \/ world = Single /\ cfg \in Settings
  /\ InitRest

Spec == Init /\ [][Next]_vars

\* The event feed on its own: listen() against every behaviour of the
\* connection, with cancellation possible at every suspension.
InitBurst == world = Burst /\ cfg = BurstSettings /\ InitRest
NextFeed ==
  \/ \E ok \in BOOLEAN : feed_connect(ok)
  \/ \E reply \in SubscribeReplies : feed_subscribe(reply)
  \/ \E msg \in Messages : feed_message(msg)
  \/ \E clean \in BOOLEAN : feed_stream_end(clean)
  \/ feed_backoff_done
  \/ feed_cancel
SpecFeed == InitBurst /\ [][NextFeed]_vars

\* ------------------------------------------------ the rate limiter on its own

\* Callers of RateLimiter.acquire that contend for the bucket: each task calls
\* acquire again and again.  Time is kept relative here: the clock reads 0 and
\* a tick moves every recorded instant one tick into the past (acquire uses
\* differences of clock readings only).  An instant older than a full refill
\* of the bucket is kept at that age, which min() makes equivalent; a permit
\* older than GrantHorizon is forgotten.
LimFull == LimMaxCalls * LimTicksPerToken
GrantHorizon == GrantWindow * LimTicksPerToken
Max(a, b) == IF a > b THEN a ELSE b

\* One pass of task t through acquire: the locked section, then the return
\* or the sleep.
acquire_pass(t) ==
  LET a == limiter_acquire(lim_tokens, lim_last, now)
  IN /\ acquire_step(a)
     /\ IF a.granted
          THEN /\ pc' = [pc EXCEPT ![t] = "done"]
               /\ loc' = [loc EXCEPT ![t].wake = 0]
          ELSE /\ pc' = [pc EXCEPT ![t] = "lim_sleep"]
               /\ loc' = [loc EXCEPT ![t].wake = now + a.need]

\* acquire() called by task t.
lim_call(t) ==
  /\ running = 0
  /\ pc[t] \in {"unborn", "done"}
  /\ acquire_pass(t)
  /\ UNCHANGED <<now, envVars, feedVars, running, ntasks, evt, hist, dedupVars, probeVars,
                 metaVars, reg_cached, reg_last, reg_lock, reg_fetched, reg_refreshed, exchVars>>

\* The sleep of task t is over: "await self.acquire()" again.
lim_retry(t) ==
  /\ running = 0
  /\ pc[t] = "lim_sleep"
  /\ now >= loc[t].wake
  /\ acquire_pass(t)
  /\ UNCHANGED <<now, envVars, feedVars, running, ntasks, evt, hist, dedupVars, probeVars,
                 metaVars, reg_cached, reg_last, reg_lock, reg_fetched, reg_refreshed, exchVars>>

\* One tick of time.monotonic() passes.
LimTick ==
  /\ running = 0
  /\ lim_last' = Max(lim_last - 1, now - LimFull)
  /\ loc' = [t \in Tasks |-> [loc[t] EXCEPT !.wake = Max(@ - 1, now)]]
  /\ lim_grants' = LET shifted == [i \in 1..Len(lim_grants) |-> lim_grants[i] - 1]
                   IN SelectSeq(shifted, LAMBDA g : g >= now - GrantHorizon)
  /\ UNCHANGED <<now, envVars, feedVars, running, ntasks, pc, evt, hist, dedupVars, probeVars,
                 metaVars, reg_cached, reg_last, reg_lock, reg_fetched, reg_refreshed, lim_tokens, exchVars>>

NextLimiter ==
  \/ \E t \in At("unborn") \cup At("done") : lim_call(t)
  \/ \E t \in At("lim_sleep") : lim_retry(t)
  \/ LimTick

\* Time advances, and a caller whose sleep is over is resumed.
SpecLimiter ==
  /\ InitBurst
  /\ [][NextLimiter]_vars
  /\ WF_vars(LimTick)
  /\ \A t \in Tasks : WF_vars(lim_retry(t))

\* ---------------------------------------------- the token registry on its own

\* Callers of get_token_info that call it again and again, against a list
\* source that fails, answers with a mapping, or answers with an empty one.
RegAnswers ==
  ListAnswers \cup {[ok |-> TRUE, shape |-> "data_list", tokens |-> EmptySnapshot]}

\* get_token_info(symbol) called by task t for the symbol of its token.
reg_call(t) ==
  /\ running = 0
  /\ pc[t] \in {"unborn", "done"}
  /\ LET c == evt[t].token_contract
         sd == {meta_of(m) : m \in cache_set(meta_cache, c, ChainSymbol(c), ChainDecimals(c), now)[c]}
     IN get_token_info(t, [loc EXCEPT ![t].sd = sd])
  /\ UNCHANGED <<now, envVars, feedVars, ntasks, evt, dedupVars, probeVars, metaVars, exchVars>>

\* get_token_info has returned to its caller, which ends.
reg_return(t) ==
  /\ running = t
  /\ pc[t] = "price"
  /\ pc' = [pc EXCEPT ![t] = "done"]
  /\ running' = 0
  /\ UNCHANGED <<now, envVars, feedVars, ntasks, evt, loc, hist, dedupVars, probeVars, metaVars,
                 regVars, exchVars>>

NextRegistry ==
  \/ \E t \in At("unborn") \cup At("done") : reg_call(t)
  \/ \E t \in At("reg_lock") : reg_lock_acquired(t)
  \/ \E t \in At("lim_sleep") : lim_wake(t)
  \/ \E t \in At("reg_http"), resp \in RegAnswers : reg_http_done(t, resp)
  \/ \E t \in At("price") : reg_return(t)
  \/ Tick

SpecRegistry == InitBurst /\ [][NextRegistry]_vars

\* ------------------------------------------- the worker controller on its own

\* The control server against every pidfile and process table it can find at
\* construction, every outcome of spawning and signalling, and processes that
\* end or appear at any time.
InitController ==
  /\ world = Burst /\ cfg = BurstSettings
  /\ InitPipeline
  /\ \E pf \in Pids \cup {NoPid}, ps \in [Pids -> {"none", "own", "foreign"}] : InitWorker(pf, ps)

NextWorker ==
  \/ \E enable \in BOOLEAN, spawn \in SpawnOutcomes, p \in Pids : ctl_start(enable, spawn, p)
  \/ \E polls \in 0..MaxPolls, sig \in SignalOutcomes : ctl_stop(polls, sig)
  \/ ctl_stop_poll
  \/ ctl_stop_kill
  \/ ctl_stop_end
  \/ ctl_status
  \/ \E p \in Pids : os_exit(p)
  \/ \E p \in Pids : os_foreign(p)

SpecWorker == InitController /\ [][NextWorker]_vars

\* The deduplicator on its own: hashes presented one after another.
NextDedup == \E h \in Hashes : Present(h)
SpecDedup == InitBurst /\ [][NextDedup]_vars

\* ------------------------------------------------------------------ claims

\* C1: a presented hash that is not recorded returns true and is recorded,
\* and two back-to-back presentations of one hash return (true, false).
\* Refuted: the presentation that takes the set past SeenCap empties it, the
\* hash included, so the next presentation of that hash returns true again.
C1_BackToBack ==
  /\ dd_last[2] => dd_last[1] \in seen_txs
  /\ (dd_prev[1] = dd_last[1] /\ dd_prev[2]) => ~dd_last[2]

\* The tasks that presented hash h to the deduplicator.
Presented(h) == {t \in Tasks : evt[t].tx_hash = h /\ hist[t].presented}

\* C2: while the seen-set has not been emptied at its cap, of the handler
\* tasks that presented the same tx hash exactly one went past the dedup
\* step; each other one returned with no lookup and no order.
C2_OnePastDedup ==
  ~cleared =>
    \A h \in Hashes :
      Presented(h) # {} =>
        /\ Cardinality({t \in Presented(h) : hist[t].past_dedup}) = 1
        /\ \A t \in Presented(h) :
             ~hist[t].past_dedup =>
               /\ pc[t] = "done" /\ hist[t].outcome = "duplicate"
               /\ ~hist[t].fetcher /\ hist[t].list_fetch = "none"
               /\ hist[t].failed = {} /\ ~hist[t].order_sent

\* C2 witness: two tasks of one hash were alive together; the first is still
\* resolving metadata when the second has returned as a duplicate.
C2_Witness ==
  \E t, u \in Tasks :
    /\ t # u /\ evt[t].tx_hash = evt[u].tx_hash /\ evt[t].tx_hash # NoHash
    /\ ~cleared
    /\ pc[t] \in {"meta_fetch", "meta_wait"}
    /\ hist[u].outcome = "duplicate"

\* The calls of get_symbol_decimals for contract c that are in progress.
Fetching(c) == {t \in At("meta_fetch") : evt[t].token_contract = c}
Waiting(c) == {t \in At("meta_wait") : evt[t].token_contract = c}

\* C3: for every contract at most one fetch is in progress; the callers that
\* wait on its pending future issue no eth_call of their own, so the calls in
\* progress issued exactly one symbol call and one decimals call between them.
C3_SingleFlight ==
  \A c \in Contracts :
    /\ Cardinality(Fetching(c)) <= 1
    /\ eth_calls[c].symbol = eth_calls[c].decimals
    /\ eth_calls[c].symbol =
         Cardinality({t \in Tasks : evt[t].token_contract = c /\ hist[t].fetcher})
    /\ \A t \in Waiting(c) :
         /\ ~hist[t].fetcher
         /\ fut[loc[t].wait_on].state = "pending" => loc[t].wait_on \in Fetching(c)

\* C3 witness: three concurrent calls for one contract, one pair of eth_calls.
C3_Witness ==
  \E c \in Contracts :
    /\ Cardinality(Fetching(c)) = 1
    /\ Cardinality(Waiting(c)) = 2
    /\ \A t \in Waiting(c) : fut[loc[t].wait_on].state = "pending"
    /\ eth_calls[c] = [symbol |-> 1, decimals |-> 1]

\* x >= y on floats (False when either is NaN).
fge(x, y) == fle(y, x)

\* C4: a market order is requested for an event only if its metadata resolved
\* with decimals in [0, 36], a price was obtained, the token is listed or
\* unlisted trading is on, value_usdt >= the trigger threshold and the
\* futures market is tradable; after a failed metadata fetch no order is made.
\* Refuted: a list price that parses to NaN makes value_usdt NaN, and the
\* test "value_usdt < trigger" lets NaN through.
C4_OrderGating ==
  \A t \in Tasks :
    /\ hist[t].order_sent =>
         /\ hist[t].past_dedup /\ "metadata" \notin hist[t].failed
         /\ ChainDecimals(evt[t].token_contract) \in 0..36
         /\ hist[t].price_src \in {"list", "mark"} /\ hist[t].price # {}
         /\ hist[t].in_list \/ cfg.trade_when_token_not_in_list
         /\ \E v \in hist[t].value_usdt : fge(v, to_float(cfg.trigger_value_usdt))
         /\ hist[t].market_status = "TRADING"
    /\ "metadata" \in hist[t].failed => ~hist[t].order_req /\ ~hist[t].order_sent

\* (amount_raw / 10^decimals) * p >= trigger in exact arithmetic, p and the
\* trigger being the floats the handler holds.
ExactGeq(amount_raw, decimals, p, trigger) ==
  /\ ~IsNaN(p) /\ ~IsNaN(trigger)
  /\ amount_raw * p[1] * trigger[2] >= trigger[1] * Pow(10, decimals) * p[2]

\* C5: for an event whose metadata resolved and whose token is listed with
\* a (finite) price p, the handler goes on to the order exactly when
\* (amount_raw / 10^decimals) * p >= trigger_value_usdt, and then requests the
\* order exactly when the futures market is tradable.
\* Refuted: the amount is a binary float quotient (see C16), so the product
\* can land on the other side of the threshold.
C5_TriggerIff ==
  \A t \in Tasks :
    (/\ hist[t].price_src = "list" /\ hist[t].in_list /\ hist[t].value_usdt # {}
     /\ \A x \in hist[t].price : ~IsNaN(x)) =>
      LET p == CHOOSE x \in hist[t].price : TRUE
          exact == ExactGeq(evt[t].amount_raw, ChainDecimals(evt[t].token_contract),
                            p, to_float(cfg.trigger_value_usdt))
      IN /\ hist[t].decided <=> exact
         /\ hist[t].order_req => hist[t].decided /\ hist[t].market_status = "TRADING"
         /\ (hist[t].decided /\ hist[t].market_status = "TRADING") => hist[t].order_req

\* The recipient _parse_message derives from a message: {} when there is none
\* (fewer than 3 topics, or a topic that spells no address).
derived_to(msg) ==
  IF Len(msg.topics) < 3 THEN {} ELSE norm_addr(topic_addr(msg.topics[3]))

\* C6: a notification whose derived recipient differs from the watched
\* address yields nothing; every yielded event has to_addr equal to the
\* watched address and came from a message with at least 3 topics.
C6_FeedFilter ==
  \A msg \in feed_msg :
    /\ derived_to(msg) # {watch_address} => feed_yield = {}
    /\ \A e \in feed_yield :
         /\ e.to_addr = watch_address
         /\ Len(msg.topics) >= 3
         /\ e \in ERC20TransferIn

\* C6 witness: a transfer to another address was dropped, the recipient
\* topic being well formed.
C6_Witness ==
  \E msg \in feed_msg :
    /\ msg.has_result /\ Len(msg.topics) >= 3 /\ msg.address # {} /\ msg.data # {}
    /\ msg.block_ok
    /\ derived_to(msg) = {[id |-> OtherId, sp |-> "checksum"]}
    /\ feed_yield = {}

\* What counts as a failure of the feed loop's connection.
FeedFailures == {"connect_failed", "subscribe_failed", "receive_error"}

\* C7: the feed loop ends only by cancellation; every other failure leads to
\* the backoff sleep and from there back to connecting; once cancelled the
\* loop has ended, with no backoff sleep and no reconnect after it.
C7_FeedLoop ==
  /\ fpc = "ended" <=> feed_event = "cancelled"
  /\ feed_event \in FeedFailures => fpc = "backoff"
  /\ fpc = "backoff" => feed_event \in FeedFailures
  /\ feed_event = "slept" => fpc = "connecting"

\* C7 witness: the loop went through a failure and its backoff, reconnected,
\* failed again and was cancelled in the second backoff sleep.
C7_Witness ==
  /\ fpc = "ended" /\ feed_event = "cancelled"
  /\ feed_slept = BackoffInit /\ backoff = 2 * BackoffInit

\* C8: no exception leaves on_transfer_in, whatever fails.
\* Refuted: the timeout of one coalesced caller cancels the future it shares
\* with the others; they get CancelledError, which neither "except Exception"
\* of get_symbol_decimals nor that of on_transfer_in catches.
C8_NeverRaises ==
  \A t \in Tasks : hist[t].outcome # "raised"

\* The external calls whose failure the handler must answer by not trading.
HardCalls == {"metadata", "token_list", "exchange_info", "mark_price"}

\* C9 as stated: if any external call other than the best-effort margin type
\* and leverage calls failed while an event was handled, no market order was
\* submitted for it.
C9_AnyFailureNoOrder ==
  \A t \in Tasks :
    hist[t].failed \cap HardCalls # {} => ~hist[t].order_sent

\* C9 amended: when the market order is submitted, no metadata fetch, market
\* lookup, mark-price fetch or filter lookup of that event has failed; only a
\* token-list fetch may have (the handler then used the retained snapshot).
C9_NoOrderAfterHardFailure ==
  \A t \in Tasks :
    hist[t].order_sent => hist[t].failed_pre \subseteq {"token_list"}

\* C9 witness: after a failed token-list fetch, the mark-price fetch inside
\* open_short_market failed too and the handler ended without an order.
C9_Witness ==
  \E t \in Tasks :
    /\ pc[t] = "done" /\ hist[t].order_req /\ ~hist[t].order_sent
    /\ {"token_list", "mark_price"} \subseteq hist[t].failed

\* C10: a failed upstream fetch leaves the snapshot and the last-fetch time
\* as they were, raises nothing, and get_token_info answers from the retained
\* snapshot; a successful fetch makes the snapshot the fetched mapping, whole,
\* in the one step that also sets the last-fetch time.
C10_Refresh ==
  [][\A t \in Tasks :
       /\ (hist[t].list_fetch = "none" /\ hist'[t].list_fetch = "failed") =>
            /\ reg_cached' = reg_cached /\ reg_last' = reg_last
            /\ hist'[t].info_ret = cached_get(reg_cached, Meta(t).symbol)
            /\ pc'[t] = "price" /\ hist'[t].outcome = "none"
       /\ (hist[t].list_fetch = "none" /\ hist'[t].list_fetch = "ok") =>
            /\ reg_cached' = reg_fetched' /\ reg_last' = now
            /\ hist'[t].info_ret = cached_get(reg_fetched', Meta(t).symbol)
       /\ reg_cached' = reg_fetched']_vars

\* C10 witness: a task whose own fetch failed was answered from a snapshot an
\* earlier fetch had stored.
C10_Witness ==
  \E t \in Tasks :
    /\ hist[t].list_fetch = "failed" /\ hist[t].info_ret # {}
    /\ reg_cached # EmptySnapshot

\* The bucket level stays within [0, max_calls], and of the permits granted
\* any k in a row span at least (k - max_calls) token periods.
BucketBounds ==
  /\ 0 <= lim_tokens /\ lim_tokens <= LimFull
  /\ \A i, j \in 1..Len(lim_grants) :
       i < j => (j - i + 1 - LimMaxCalls) * LimTicksPerToken <= lim_grants[j] - lim_grants[i]

\* C11: after any sequence of concurrent acquire calls 0 <= tokens <=
\* max_calls; a pass through acquire returns only when the refilled level is
\* at least one token, and leaves exactly one token less; so an interval of
\* length T holds at most max_calls + T * max_calls / period permits.
C11_BucketSafety ==
  /\ []BucketBounds
  /\ [][((\E t \in Tasks : pc[t] # "done" /\ pc'[t] = "done")
            \/ lim_grants' = record_grant(lim_grants, now)) =>
           LET level == Min(LimFull, lim_tokens + (now - lim_last))
           IN level >= LimTicksPerToken /\ lim_tokens' = level - LimTicksPerToken]_vars

\* C11 witness: callers contend; one sleeps while another holds a permit, the
\* bucket is empty and three permits have been granted.
C11_Witness ==
  /\ Len(lim_grants) = GrantWindow
  /\ lim_tokens = 0
  /\ \E t, u \in Tasks : pc[t] = "lim_sleep" /\ pc[u] = "done"

\* C12: every acquire() call eventually returns, also when several callers
\* contend for the bucket: a caller that sleeps gets its permit in the end.
\* Refuted: the waiters are not queued.  A caller whose sleep is over finds
\* the token it waited for taken by a call that got in first, sleeps again,
\* and this can go on for ever.
C12_AcquireReturns ==
  \A t \in Tasks : (pc[t] = "lim_sleep") ~> (pc[t] = "done")

\* C13: the cache gains an entry for a contract only in the step in which a
\* fetch for that contract ends with both calls giving a value, and the entry
\* is that symbol (upper case) and those decimals; a fetch that ends any other
\* way, and a waiter that times out, return absence and leave the cache as it
\* was.
C13_CacheOnlySuccess ==
  [][/\ \A c \in Contracts :
          (meta_cache'[c] # meta_cache[c] /\ meta_cache'[c] # {}) =>
            /\ \E t \in Fetching(c) :
                 /\ hist'[t].meta_res = <<"value", "value">>
                 /\ loc'[t].sd = {meta_of(m) : m \in meta_cache'[c]}
            /\ meta_cache'[c] = {[symbol |-> upper(ChainSymbol(c)),
                                  decimals |-> ChainDecimals(c), ts |-> now]}
     /\ \A t \in Tasks :
          (pc[t] = "meta_fetch" /\ pc'[t] # "meta_fetch"
             /\ hist'[t].meta_res # <<"value", "value">>) =>
            /\ meta_cache' = meta_cache
            /\ pc'[t] = "done" /\ hist'[t].outcome = "metadata unavailable"
     /\ \A t \in Tasks :
          (pc[t] = "meta_wait" /\ pc'[t] = "done") => meta_cache' = meta_cache]_vars

\* C13 witness: a fetch in which the symbol call gave a value and the decimals
\* call gave none ended in absence with nothing cached.
C13_Witness ==
  \E t \in Tasks :
    /\ hist[t].meta_res = <<"value", "none">>
    /\ pc[t] = "done" /\ hist[t].outcome = "metadata unavailable"
    /\ meta_cache[evt[t].token_contract] = {}

\* Exact arithmetic on the numbers the floats and the decimal texts stand
\* for: notional / price floored to a multiple of step, and x < y.
ExactFloorToStep(notional, price, step) ==
  LET k == (notional[1] * price[2] * step[2]) \div (notional[2] * price[1] * step[1])
  IN <<k * step[1], step[2]>>
ExactLess(x, y) == x[1] * y[2] < y[1] * x[2]

\* C14: when open_short_market has the symbol's lot step, the quantity it goes
\* on to submit is the largest multiple of the step that does not exceed
\* notional / mark_price (as a float: the float nearest to it), and it submits
\* nothing when that quantity is below the minimum quantity.
\* Refuted: the quotient, the division by the step, the floor and the product
\* are binary float operations, so the result can be a step too low or exceed
\* notional / mark_price.
C14_OrderQuantity ==
  [][\A t \in Tasks :
       (/\ pc[t] = "osm_filters" /\ pc'[t] # "osm_filters"
        /\ hist'[t].failed = hist[t].failed
        /\ \A x \in hist[t].price : ~IsNaN(x)
        /\ \E i \in exch_info' : i.status # "absent" /\ i.step # {}) =>
         LET i == CHOOSE x \in exch_info' : TRUE
             step == CHOOSE s \in i.step : TRUE
             expected == ExactFloorToStep(to_float(cfg.short_notional_usdt),
                                          CHOOSE p \in loc[t].mark : TRUE, step)
         IN IF \E m \in i.min_qty : ExactLess(expected, m)
              THEN pc'[t] = "done"
              ELSE /\ pc'[t] = "osm_order"
                   /\ loc'[t].qty = {to_float(expected)}]_vars

\* Reading a trigger text back: the characters before and after the point.
PointAt(s) == {i \in 1..Len(s) : s[i] = "."}
DigitOf(ch) == (CHOOSE i \in 1..10 : DigitChars[i] = ch) - 1
RECURSIVE DigitsValue(_)
DigitsValue(s) == IF s = <<>> THEN 0
                  ELSE 10 * DigitsValue(SubSeq(s, 1, Len(s) - 1)) + DigitOf(s[Len(s)])
FractionDigits(s) == Len(s) - (CHOOSE i \in PointAt(s) : TRUE)
TextValue(s) == DigitsValue(SelectSeq(s, LAMBDA ch : ch # "."))

\* text is the largest multiple of the tick that does not exceed the price,
\* written with digits and one point only and with as many fractional digits
\* as the tick has; price and tick are floats, read as the decimals they
\* print as.
RoundedToTick(text, price, tick) ==
  LET p == Decimal_of(price)
      t == Decimal_of(tick)
      v == TextValue(text)
  IN /\ \A i \in 1..Len(text) : text[i] = "." \/ \E k \in 1..10 : DigitChars[k] = text[i]
     /\ Cardinality(PointAt(text)) = 1
     /\ FractionDigits(text) = t[2]
     /\ v % t[1] = 0
     /\ v * Pow(10, p[2]) <= p[1] * Pow(10, t[2])
     /\ (v + t[1]) * Pow(10, p[2]) > p[1] * Pow(10, t[2])

\* C15: with a tick > 0, the trigger price sent with the take-profit order
\* and the one sent with the stop-loss order are each the largest multiple of
\* the tick not above the trigger price, in plain decimal notation with
\* exactly the tick's number of fractional digits.
C15_TickRounding ==
  [][\A t \in Tasks :
       (pc[t] = "tp_place" /\ pc'[t] = "done") =>
         LET entry == CHOOSE p \in loc[t].mark : TRUE
             tick == get_tick_size(exch_info')
             tp_price == fmul(entry, fsub(<<1, 1>>, to_float(cfg.take_profit_pct)))
             sl_price == fmul(entry, fadd(<<1, 1>>, to_float(cfg.stop_loss_pct)))
         IN \A x \in tick :
              flt(<<0, 1>>, x) =>
                /\ \A s \in hist'[t].tp_trigger : RoundedToTick(s, tp_price, x)
                /\ \A s \in hist'[t].sl_trigger : RoundedToTick(s, sl_price, x)]_vars

\* C15 witness: with tick 0.25 the take-profit trigger 2.2 went out as "2.00"
\* and the stop-loss trigger 4.5 as "4.50".
C15_Witness ==
  \E t \in Tasks :
    /\ pc[t] = "done" /\ hist[t].tp_sent /\ hist[t].sl_sent
    /\ hist[t].tp_trigger = {<<"2", ".", "0", "0">>}
    /\ hist[t].sl_trigger = {<<"4", ".", "5", "0">>}

\* C16: the amount on_transfer_in computes equals amount_raw / 10^decimals
\* exactly, for every amount_raw and every decimals in [0, 36].
\* Refuted: the quotient is a binary float, rounded.
C16_ExactAmount ==
  [][\A t \in Tasks :
       (pc[t] = "after_meta" /\ pc'[t] \notin {"after_meta", "done"}) =>
         LET decimals == ChainDecimals(evt[t].token_contract)
         IN /\ decimals \in 0..36
            /\ ~IsNaN(loc'[t].amount)
            /\ loc'[t].amount[1] * Pow(10, decimals) = evt[t].amount_raw * loc'[t].amount[2]]_vars

\* C17: the backoff goes back to its floor only when a subscription has been
\* acknowledged, and the k-th failed connection attempt in a row since the
\* last acknowledged subscription is followed by a wait of
\* min(0.2 * 2^(k-1), 3.0) seconds.
\* Refuted: the backoff is set back as soon as the socket is connected,
\* before the subscription is sent.
C17_BackoffSchedule ==
  /\ [](fpc = "backoff" =>
          Min(backoff, BackoffCap) = Min(BackoffInit * Pow(2, feed_fails - 1), BackoffCap))
  /\ [][backoff' < backoff => feed_event' = "subscribed"]_vars

\* C18: the in-flight map holds an entry for a contract only while the fetch
\* for it is in progress, and the future of a fetch that is over, or that a
\* coalesced waiter has timed out on, is resolved and out of the map: a
\* caller never finds a stale future registered.
\* Refuted: a waiter's timeout cancels the shared future, which stays
\* registered, cancelled, until the fetch ends, and is never resolved.
C18_PendingRetired ==
  /\ \A c \in Contracts :
       inflight[c] # 0 =>
         /\ pc[inflight[c]] = "meta_fetch"
         /\ fut[inflight[c]].state = "pending"
  /\ \A t \in Tasks :
       (hist[t].fetcher /\ pc[t] # "meta_fetch") =>
         /\ fut[t].state = "result"
         /\ \A c \in Contracts : inflight[c] # t

\* C19: a caller coalesced onto a pending fetch returns what the fetching
\* caller returns for that fetch: the same tuple, or absence.
\* Refuted: a waiter whose timeout fires returns None while the fetch goes on
\* to succeed, and a waiter on a future that another waiter's timeout
\* cancelled ends with CancelledError.
C19_CoalescedOutcome ==
  \A t \in Tasks :
    LET f == hist[t].coalesced
    IN (f # 0 /\ hist[t].meta_how # "none" /\ hist[f].meta_how # "none") =>
         /\ hist[t].meta_how = hist[f].meta_how
         /\ hist[t].meta_sd = hist[f].meta_sd

\* C20: an event whose handling reaches get_symbol_decimals was presented to
\* the deduplicator and found novel there, and its tx hash is in the seen-set
\* when the handler goes on; this for every event the feed yields, one
\* without a transactionHash included.
\* Refuted: the handler skips the deduplicator when the event has no tx hash.
C20_DedupBeforeMetadata ==
  [][\A t \in Tasks :
       (pc[t] # "meta_call" /\ pc'[t] = "meta_call") =>
         /\ hist'[t].presented
         /\ dedup_tx(seen_txs, evt[t].tx_hash).ret
         /\ evt[t].tx_hash \in seen_txs']_vars

\* C21: no lock is held across a suspension: the holder of the registry lock
\* is not waiting for the token-list response nor sleeping for a limiter
\* permit, so no caller of get_token_info waits for the lock behind the
\* network or the limiter.  (The dedup, metadata and limiter locks guard steps
\* without a suspension.)
\* Refuted: refresh_if_needed awaits _fetch inside "async with self._lock".
C21_NoLockAcrossSuspension ==
  /\ \A t \in Tasks :
       reg_lock = t => pc[t] \notin {"reg_http", "lim_sleep"}
  /\ \A u \in Tasks :
       pc[u] = "reg_lock" =>
         (reg_lock = 0 \/ pc[reg_lock] \notin {"reg_http", "lim_sleep"})

\* A step in which task t starts an upstream fetch of the token list.
StartsFetch(t) ==
  pc[t] \notin {"reg_http", "lim_sleep"} /\ pc'[t] \in {"reg_http", "lim_sleep"}

\* C22: once a refresh has succeeded at time _last_fetch, no get_token_info
\* call made less than cache_ttl later starts an upstream fetch, whatever
\* mapping that refresh returned; a fetch starts only when no refresh has
\* succeeded yet or the snapshot is cache_ttl old.
\* Refuted: an empty mapping is never fresh ("and self._cached").
C22_SnapshotFreshness ==
  [][\A t \in Tasks :
       StartsFetch(t) => ~(reg_refreshed /\ now - reg_last < RegTTL)]_vars

\* The fetches of the token list in flight: a task in _fetch, waiting for its
\* permit or for the response.
FetchesInFlight == {t \in Tasks : pc[t] \in {"reg_http", "lim_sleep"}}

\* C23: at most one upstream fetch is in flight at any moment, and a caller
\* that waited for the lock while another caller refreshed the snapshot gets
\* the lock, finds the snapshot refreshed, and returns from it without a fetch
\* of its own.
\* Refuted: when the refresh returned an empty mapping the waiter fetches
\* again.
C23_RefreshCoalescing ==
  /\ [](Cardinality(FetchesInFlight) <= 1)
  /\ [][\A t \in Tasks :
          (/\ pc[t] = "reg_lock" /\ pc'[t] # "reg_lock"
           /\ reg_refreshed /\ now - reg_last < RegTTL) =>
            /\ pc'[t] = "price"
            /\ hist'[t].info_ret = cached_get(reg_cached, Meta(t).symbol)
            /\ UNCHANGED <<reg_cached, reg_last, lim_tokens>>]_vars

\* C24: every entry of the metadata cache has decimals in [0, 36], whatever
\* the decimals() call returned; and an entry older than the TTL is not
\* returned: the resolve that finds it drops it and fetches again.
\* Refuted: _cache_set stores whatever integer the call returned; the range
\* is tested by the handler, after the entry is cached.
C24_CacheEntries ==
  /\ [](\A c \in Contracts : \A m \in meta_cache[c] : m.decimals \in 0..36)
  /\ [][\A t \in Tasks :
          (pc[t] = "meta_call" /\ pc'[t] # "meta_call") =>
            LET c == evt[t].token_contract
                expired == {m \in meta_cache[c] : now - m.ts > MetaTTL}
            IN /\ expired # {} =>
                    /\ pc'[t] \in {"meta_fetch", "meta_wait", "done"}
                    /\ meta_cache'[c] = {}
               /\ pc'[t] = "after_meta" =>
                    \E m \in meta_cache[c] :
                      now - m.ts <= MetaTTL /\ loc'[t].sd = {meta_of(m)}]_vars

\* Task t is in the middle of a network call: the metadata eth_calls (or the
\* wait for them), the token-list GET, or a venue call (the exchange
\* information only when it has to be fetched).
AtNetworkCall(t) ==
  \/ pc[t] \in {"meta_fetch", "meta_wait", "reg_http",
                "fb_mark", "osm_mark", "osm_order", "tp_mark"}
  \/ /\ pc[t] \in {"fb_exists", "chk_exists", "osm_filters"}
     /\ ~(exch_info # {} /\ now - exch_ts < ExchTTL)

\* C25: a handler that is at one of its network calls does not hold the event
\* loop, so main can take the next event from the feed and create its handler
\* task; and handlers start in the order their events were produced.
\* Refuted: the venue calls are synchronous and keep the loop for as long as
\* they take.
C25_FireAndForget ==
  /\ [](\A t \in Tasks : AtNetworkCall(t) => running # t)
  /\ [][\A t \in Tasks :
          (pc[t] = "ready" /\ pc'[t] # "ready") =>
            \A u \in Tasks : u < t => pc[u] \notin {"unborn", "ready"}]_vars

\* C26: in place_tp_sl_for_short (entry price > 0) the take-profit order is
\* submitted if and only if 0 < take_profit_pct < 1 and the stop-loss order if
\* and only if stop_loss_pct > 0, whatever became of the other order.
\* Refuted: a take-profit submission that raises ends the function before the
\* stop-loss order is submitted.
C26_ProtectiveOrders ==
  [][\A t \in Tasks :
       (pc[t] = "tp_place" /\ pc'[t] = "done") =>
         LET tp == to_float(cfg.take_profit_pct)
             sl == to_float(cfg.stop_loss_pct)
         IN /\ \A p \in loc[t].mark : flt(<<0, 1>>, p)
            /\ hist'[t].tp_sent <=> (flt(<<0, 1>>, tp) /\ flt(tp, <<1, 1>>))
            /\ hist'[t].sl_sent <=> flt(<<0, 1>>, sl)]_vars

\* C27: a take-profit or stop-loss order is submitted for an event only after
\* its market order was submitted and placed; after a market order that was
\* skipped, rejected or failed no conditional order follows; and the market
\* order is submitted at most once per event.
C27_OrderOrdering ==
  /\ [](\A t \in Tasks :
          /\ (hist[t].tp_sent \/ hist[t].sl_sent) => (hist[t].order_sent /\ hist[t].order_ok)
          /\ pc[t] \in {"tp_mark", "tp_place"} => (hist[t].order_sent /\ hist[t].order_ok)
          /\ hist[t].order_ok => hist[t].order_sent)
  /\ [][\A t \in Tasks :
          /\ (~hist[t].order_sent /\ hist'[t].order_sent) => pc[t] = "osm_order"
          /\ hist[t].order_sent =>
               /\ hist'[t].order_sent /\ hist'[t].order_ok = hist[t].order_ok
               /\ pc'[t] \in {"tp_mark", "tp_place", "done"}
          /\ ((hist'[t].tp_sent /\ ~hist[t].tp_sent) \/ (hist'[t].sl_sent /\ ~hist[t].sl_sent)) =>
               (hist[t].order_sent /\ hist[t].order_ok)]_vars

\* C27 witness: with a take-profit configured, a handler's market order was
\* submitted and rejected, and the handler ended with no conditional order.
C27_Witness ==
  \E t \in Tasks :
    /\ pc[t] = "done" /\ hist[t].order_sent /\ ~hist[t].order_ok
    /\ ~hist[t].tp_sent /\ ~hist[t].sl_sent
    /\ flt(<<0, 1>>, to_float(cfg.take_profit_pct))

\* C28: listen() yields events only on a connection whose subscription
\* request was answered by an acknowledgment with a subscription id; a reply
\* without an id, an error reply or no reply in time fails the attempt
\* (backoff) and nothing of that connection is yielded.
\* Refuted: the reply is accepted when it has a "result" member, whatever its
\* value.
C28_SubscribedBeforeYield ==
  /\ [](/\ fpc = "streaming" => feed_sub = "id"
        /\ feed_yield # {} => (fpc = "streaming" /\ feed_sub = "id")
        /\ fpc = "subscribing" => (feed_sub = "none" /\ feed_yield = {}))
  /\ [][(fpc = "subscribing" /\ fpc' # "subscribing" /\ feed_event' # "cancelled") =>
          \/ fpc' = "streaming" /\ feed_sub' = "id"
          \/ fpc' = "backoff" /\ feed_yield' = {}]_vars

\* C29: the seen-set never holds more than the cap; it changes only by a
\* _dedup_tx call for a hash it does not hold, which adds that hash, or, when
\* that would take it past the cap, empties it completely.
C29_SeenSetSize ==
  /\ [](Cardinality(seen_txs) <= SeenCap)
  /\ [][seen_txs' # seen_txs =>
          \E h \in Hashes \ seen_txs :
            seen_txs' = IF Cardinality(seen_txs) + 1 > SeenCap
                          THEN {} ELSE seen_txs \cup {h}]_vars

\* C29 witness: the set was full, one more hash was presented by a handler
\* and the set is empty.
C29_Witness ==
  /\ cleared /\ seen_txs = {}
  /\ Cardinality({evt[t].tx_hash : t \in {u \in Tasks : hist[u].presented}}) = SeenCap + 1

\* C30: listen() never goes back to connecting without a wait: after a
\* connection has ended, by a failure or by the message stream ending without
\* an exception, it sleeps at least the backoff floor before the next attempt.
\* Refuted: when the stream ends without an exception the while loop connects
\* again at once.
C30_WaitBeforeReconnect ==
  [][(fpc # "connecting" /\ fpc' = "connecting") =>
       (fpc = "backoff" /\ feed_event' = "slept" /\ feed_slept' >= BackoffInit)]_vars

\* The handler tasks of hash h that went on to processing (past the dedup step).
Attempts(h) == {t \in Tasks : evt[t].tx_hash = h /\ hist[t].past_dedup}

\* The outcomes of a handling attempt that was given up.
Aborted == {"metadata unavailable", "price unavailable", "short failed"}

C32_ResultFlag ==
  last_op.returned =>
    /\ result["ok"] = ~last_op.failed
    /\ (last_op.op = "start" /\ last_op.why = "spawn") =>
         (state.pid = NoPid /\ state.last_error # NoError)
====
